---- MODULE Spec2Model ----
(***************************************************************************)
(* The widget state-orchestration engine of widget-dragger: the reducer    *)
(* (widgetReducer.js), the TTL cache (useCache), the debounced refresh and *)
(* the orchestrating hook (useWidgets), over a discrete millisecond clock. *)
(*                                                                         *)
(* One action is one JavaScript task: an event handler, a timer callback   *)
(* or the continuation of an awaited fetch.  Everything a task does        *)
(* (dispatches, cache reads and writes, starting a fetch) happens in that  *)
(* one step, in program order, and is recorded in `log`.                   *)
(***************************************************************************)
EXTENDS Integers, Sequences, FiniteSets, Bags, TLC

\* ------------------------------------------------------------------ bounds
\* how many tasks (handler calls, timer callbacks, fetch continuations,
\* advances of the clock) one behaviour holds
MaxSteps == 6
\* the same, fetch continuations not counted, where every started fetch is
\* let to settle
MaxLiveSteps == 4
\* how many widgets the reducer, driven alone, is given to add
MaxWidgets == 4
\* how many calls of the reducer are followed by reference
MaxHeapSteps == 5

\* ------------------------------------------------------- program constants
\* const CACHE_DURATION = 5 * 60 * 1000 (ms)
CACHE_DURATION == 300000
\* useDebounce(..., 300) (ms)
DEBOUNCE_DELAY == 300

\* null (widget.data, widget.error, a cache miss)
NULL == <<>>
\* the value of an array destructuring that finds no element
UNDEFINED == [undefined |-> TRUE]
\* useState(null): no index
NoIndex == -1

\* WIDGET_ACTIONS
ADD_WIDGET == "ADD_WIDGET"
REMOVE_WIDGET == "REMOVE_WIDGET"
REORDER_WIDGETS == "REORDER_WIDGETS"
UPDATE_WIDGET_DATA == "UPDATE_WIDGET_DATA"
SET_WIDGET_LOADING == "SET_WIDGET_LOADING"
SET_WIDGET_ERROR == "SET_WIDGET_ERROR"

\* Object.keys(WIDGET_TYPES): the catalog of widget types
WIDGET_TYPES == {"WEATHER", "STOCK", "NEWS"}

\* the widget types the mock backend has a case for
ServiceTypes == {"weather", "stock", "news", "tasks", "stats", "notes"}

\* the strings addWidget is called with: a catalog id as the modal passes it,
\* the same id in another letter case, and a type outside the catalog
AddTypes == {"weather", "Weather", "gauge"}

\* the values Math.random() picks between for a mock payload
Samples == {1, 2}

\* the amounts of time (ms) that pass between two tasks
TickSteps == {100, 300, 299800}

VARIABLES
  widgets,   \* useReducer state: the widget list
  cache,     \* useCache: cache.current, a Map from key to {data, timestamp}
  now,       \* Date.now()
  timer,     \* the debouncer's pending timeout
  inflight,  \* the fetches awaiting widgetService.fetchWidgetData, a bag
  nextId,    \* how many ids generateWidgetId has produced, plus one
  steps,     \* how many tasks have run
  burst,     \* history: the refreshWidget calls since the debounced function last ran
  log,       \* what the last task did, in program order
  draggedIndex,   \* useDragAndDrop: the index the drag started at, or NoIndex
  dragOverIndex,  \* useDragAndDrop: the index hovered over, or NoIndex
  heap,      \* the arrays and widget objects the reducer is given and makes, by address
  root       \* the address of the array that is the reducer's current state

\* the state of useDragAndDrop
coordinator == <<draggedIndex, dragOverIndex>>
\* the objects of the reducer, where it is followed by reference
memory == <<heap, root>>

vars == <<widgets, cache, now, timer, inflight, nextId, steps, burst, log, coordinator, memory>>

\* ------------------------------------------------------------------ strings
\* String.prototype.toLowerCase on the strings of the model
toLowerCase(s) ==
  CASE s = "Weather" -> "weather"
    [] s = "WEATHER" -> "weather"
    [] s = "STOCK" -> "stock"
    [] s = "NEWS" -> "news"
    [] OTHER -> s

\* String.prototype.toUpperCase on the strings of the model
toUpperCase(s) ==
  CASE s = "weather" -> "WEATHER"
    [] s = "Weather" -> "WEATHER"
    [] s = "stock" -> "STOCK"
    [] s = "news" -> "NEWS"
    [] s = "gauge" -> "GAUGE"
    [] OTHER -> s

\* utils.js isValidWidgetType: defined, and called by no one
isValidWidgetType(type) == toUpperCase(type) \in WIDGET_TYPES

\* ------------------------------------------------------------------ arrays
Min(a, b) == IF a < b THEN a ELSE b
Max(a, b) == IF a > b THEN a ELSE b

\* Array.prototype.splice(start, deleteCount, ...items) on a copy: the array
\* after the call and the array of removed elements.  start is a JavaScript
\* (0-based) index; a negative start counts from the end; both are clamped.
Splice(arr, start, deleteCount, items) ==
  LET len == Len(arr)
      actualStart == IF start < 0 THEN Max(len + start, 0) ELSE Min(start, len)
      actualDelete == Min(Max(deleteCount, 0), len - actualStart)
  IN [removed |-> SubSeq(arr, actualStart + 1, actualStart + actualDelete),
      array |-> SubSeq(arr, 1, actualStart) \o items
                \o SubSeq(arr, actualStart + actualDelete + 1, len)]

\* ----------------------------------------------------------------- reducer
\* an ADD_WIDGET that puts the new widget first
ReduceAddWidget_Prepend(state, payload) == <<payload>> \o state

\* case ADD_WIDGET: [...state, action.payload]
ReduceAddWidget(state, payload) == Append(state, payload)

\* a REMOVE_WIDGET that splices the copy at findIndex(id), found or not (-1)
ReduceRemoveWidget_SpliceAtFindIndex(state, payload) ==
  LET found == {i \in DOMAIN state : state[i].id = payload}
      index == IF found = {} THEN 0 - 1 ELSE (CHOOSE i \in found : \A j \in found : i <= j) - 1
  IN Splice(state, index, 1, <<>>).array

\* case REMOVE_WIDGET: state.filter((widget) => widget.id !== action.payload)
ReduceRemoveWidget(state, payload) ==
  SelectSeq(state, LAMBDA widget : widget.id # payload)

\* a REORDER_WIDGETS that takes toIndex as a position of the list it was given
ReduceReorderWidgets_ToIndexOfInput(state, payload) ==
  LET first == Splice(state, payload.fromIndex, 1, <<>>)
      removed == IF first.removed = <<>> THEN UNDEFINED ELSE first.removed[1]
      toIndex == IF payload.fromIndex < payload.toIndex
                 THEN payload.toIndex - 1 ELSE payload.toIndex
  IN Splice(first.array, toIndex, 0, <<removed>>).array

\* a REORDER_WIDGETS that moves what the widgets hold and leaves each id at
\* the position it had
ReduceReorderWidgets_IdsStay(state, payload) ==
  LET first == Splice(state, payload.fromIndex, 1, <<>>)
      removed == IF first.removed = <<>> THEN UNDEFINED ELSE first.removed[1]
      moved == Splice(first.array, payload.toIndex, 0, <<removed>>).array
  IN [k \in DOMAIN moved |->
        IF k \in DOMAIN state /\ moved[k] # UNDEFINED /\ state[k] # UNDEFINED
        THEN [moved[k] EXCEPT !.id = state[k].id] ELSE moved[k]]

\* case REORDER_WIDGETS: copy, splice(fromIndex, 1), splice(toIndex, 0, removed)
ReduceReorderWidgets(state, payload) ==
  LET first == Splice(state, payload.fromIndex, 1, <<>>)
      removed == IF first.removed = <<>> THEN UNDEFINED ELSE first.removed[1]
  IN Splice(first.array, payload.toIndex, 0, <<removed>>).array

\* an UPDATE_WIDGET_DATA that is taken only by a widget that is loading
ReduceUpdateWidgetData_OnlyWhileLoading(state, payload) ==
  [i \in DOMAIN state |->
     IF state[i].id = payload.id /\ state[i].loading
     THEN [state[i] EXCEPT !.data = payload.data, !.loading = FALSE, !.error = NULL]
     ELSE state[i]]

\* an UPDATE_WIDGET_DATA that takes the widget by position, the one the
\* widget of the id was added at
ReduceUpdateWidgetData_ByPosition(state, payload) ==
  [i \in DOMAIN state |->
     IF i = payload.id
     THEN [state[i] EXCEPT !.data = payload.data, !.loading = FALSE, !.error = NULL]
     ELSE state[i]]

\* an UPDATE_WIDGET_DATA that builds the widget anew, without ...widget
ReduceUpdateWidgetData_NoSpread(state, payload) ==
  [i \in DOMAIN state |->
     IF state[i].id = payload.id
     THEN [id |-> payload.id, data |-> payload.data, loading |-> FALSE, error |-> NULL]
     ELSE state[i]]

\* an UPDATE_WIDGET_DATA that forgets loading: false
ReduceUpdateWidgetData_LoadingKept(state, payload) ==
  [i \in DOMAIN state |->
     IF state[i].id = payload.id
     THEN [state[i] EXCEPT !.data = payload.data, !.error = NULL]
     ELSE state[i]]

\* an UPDATE_WIDGET_DATA that forgets error: null
ReduceUpdateWidgetData_ErrorKept(state, payload) ==
  [i \in DOMAIN state |->
     IF state[i].id = payload.id
     THEN [state[i] EXCEPT !.data = payload.data, !.loading = FALSE]
     ELSE state[i]]

\* an UPDATE_WIDGET_DATA that adds the widget when no widget has the id
ReduceUpdateWidgetData_Upsert(state, payload) ==
  IF \E i \in DOMAIN state : state[i].id = payload.id
  THEN [i \in DOMAIN state |->
          IF state[i].id = payload.id
          THEN [state[i] EXCEPT !.data = payload.data, !.loading = FALSE, !.error = NULL]
          ELSE state[i]]
  ELSE Append(state, [id |-> payload.id, type |-> payload.data.kind, data |-> payload.data,
                      loading |-> FALSE, error |-> NULL, createdAt |-> 0])

\* case UPDATE_WIDGET_DATA
ReduceUpdateWidgetData(state, payload) ==
  [i \in DOMAIN state |->
     IF state[i].id = payload.id
     THEN [state[i] EXCEPT !.data = payload.data, !.loading = FALSE, !.error = NULL]
     ELSE state[i]]

\* a SET_WIDGET_LOADING that drops the old error when loading begins
ReduceSetWidgetLoading_ClearsError(state, payload) ==
  [i \in DOMAIN state |->
     IF state[i].id = payload.id
     THEN [state[i] EXCEPT !.loading = payload.loading,
                           !.error = IF payload.loading THEN NULL ELSE @]
     ELSE state[i]]

\* case SET_WIDGET_LOADING
ReduceSetWidgetLoading(state, payload) ==
  [i \in DOMAIN state |->
     IF state[i].id = payload.id
     THEN [state[i] EXCEPT !.loading = payload.loading]
     ELSE state[i]]

\* a SET_WIDGET_ERROR that takes the failed widget off the list
ReduceSetWidgetError_DropsWidget(state, payload) ==
  SelectSeq(state, LAMBDA widget : widget.id # payload.id)

\* a SET_WIDGET_ERROR that resets the widget's data
ReduceSetWidgetError_DataCleared(state, payload) ==
  [i \in DOMAIN state |->
     IF state[i].id = payload.id
     THEN [state[i] EXCEPT !.error = payload.error, !.loading = FALSE, !.data = NULL]
     ELSE state[i]]

\* a SET_WIDGET_ERROR that forgets loading: false
ReduceSetWidgetError_LoadingKept(state, payload) ==
  [i \in DOMAIN state |->
     IF state[i].id = payload.id
     THEN [state[i] EXCEPT !.error = payload.error]
     ELSE state[i]]

\* case SET_WIDGET_ERROR
ReduceSetWidgetError(state, payload) ==
  [i \in DOMAIN state |->
     IF state[i].id = payload.id
     THEN [state[i] EXCEPT !.error = payload.error, !.loading = FALSE]
     ELSE state[i]]

\* the cases whose callback reads widget.id of every element of state
ReadsWidgetId == {REMOVE_WIDGET, UPDATE_WIDGET_DATA, SET_WIDGET_LOADING, SET_WIDGET_ERROR}

\* widgetReducer(state, action) throws a TypeError instead of returning:
\* widget.id where widget is undefined
Throws(state, action) ==
  /\ action.type \in ReadsWidgetId
  /\ \E i \in DOMAIN state : state[i] = UNDEFINED

\* a widgetReducer whose default case returns the initial state
widgetReducer_DefaultResets(state, action) ==
  CASE action.type = ADD_WIDGET -> ReduceAddWidget(state, action.payload)
    [] action.type = REMOVE_WIDGET -> ReduceRemoveWidget(state, action.payload)
    [] action.type = REORDER_WIDGETS -> ReduceReorderWidgets(state, action.payload)
    [] action.type = UPDATE_WIDGET_DATA -> ReduceUpdateWidgetData(state, action.payload)
    [] action.type = SET_WIDGET_LOADING -> ReduceSetWidgetLoading(state, action.payload)
    [] action.type = SET_WIDGET_ERROR -> ReduceSetWidgetError(state, action.payload)
    [] OTHER -> <<>>

\* what widgetReducer(state, action) returns, when it returns
widgetReducer(state, action) ==
  CASE action.type = ADD_WIDGET -> ReduceAddWidget(state, action.payload)
    [] action.type = REMOVE_WIDGET -> ReduceRemoveWidget(state, action.payload)
    [] action.type = REORDER_WIDGETS -> ReduceReorderWidgets(state, action.payload)
    [] action.type = UPDATE_WIDGET_DATA -> ReduceUpdateWidgetData(state, action.payload)
    [] action.type = SET_WIDGET_LOADING -> ReduceSetWidgetLoading(state, action.payload)
    [] action.type = SET_WIDGET_ERROR -> ReduceSetWidgetError(state, action.payload)
    [] OTHER -> state

\* ---------------------------------------------------- reducer, by reference
\* The same reducer where arrays and widgets are objects with an address:
\* a cell of the heap is an array of addresses or a widget object, and a
\* new array or object gets the next free address.
Arr(items) == [array |-> items]
Obj(fields) == [object |-> fields]
Alloc(h, cell) == [heap |-> Append(h, cell), ref |-> Len(h) + 1]

\* state.map((widget) => widget.id === id ? { ...widget, <changes> } : widget)
\* where changed[k] is the object literal for the k-th element: a new object
\* for every element that matches, in order, then the new array
MapRef(h, s, id, changed) ==
  LET items == h[s].array
      matches == {k \in DOMAIN items : h[items[k]].object.id = id}
      rank(k) == Cardinality({j \in matches : j <= k})
      at(n) == CHOOSE k \in matches : rank(k) = n
      objects == [n \in 1..Cardinality(matches) |-> Obj(changed[at(n)])]
      mapped == [k \in DOMAIN items |->
                   IF k \in matches THEN Len(h) + rank(k) ELSE items[k]]
  IN Alloc(h \o objects, Arr(mapped))

\* case REORDER_WIDGETS: newState = [...state], two splices of newState
ReduceReorderWidgetsRef(h, s, payload) ==
  Alloc(h, Arr(ReduceReorderWidgets(h[s].array, payload)))

\* an UPDATE_WIDGET_DATA that assigns to the widget it finds
ReduceUpdateWidgetDataRef_Assign(h, s, payload) ==
  LET items == h[s].array
      assigned == [a \in DOMAIN h |->
                     IF \E k \in DOMAIN items : items[k] = a /\ h[a].object.id = payload.id
                     THEN Obj([h[a].object EXCEPT !.data = payload.data,
                                                  !.loading = FALSE, !.error = NULL])
                     ELSE h[a]]
  IN Alloc(assigned, Arr(items))

\* case UPDATE_WIDGET_DATA
ReduceUpdateWidgetDataRef(h, s, payload) ==
  MapRef(h, s, payload.id,
         [k \in DOMAIN h[s].array |->
            [h[h[s].array[k]].object EXCEPT !.data = payload.data,
                                           !.loading = FALSE, !.error = NULL]])

\* widgetReducer(state, action) with state the address s of an array in h and
\* an ADD_WIDGET payload the address of a widget: the heap afterwards and
\* the address returned
widgetReducerRef(h, s, action) ==
  CASE action.type = ADD_WIDGET -> Alloc(h, Arr(Append(h[s].array, action.payload)))
    [] action.type = REMOVE_WIDGET ->
         Alloc(h, Arr(SelectSeq(h[s].array, LAMBDA w : h[w].object.id # action.payload)))
    [] action.type = REORDER_WIDGETS -> ReduceReorderWidgetsRef(h, s, action.payload)
    [] action.type = UPDATE_WIDGET_DATA -> ReduceUpdateWidgetDataRef(h, s, action.payload)
    [] action.type = SET_WIDGET_LOADING ->
         MapRef(h, s, action.payload.id,
                [k \in DOMAIN h[s].array |->
                   [h[h[s].array[k]].object EXCEPT !.loading = action.payload.loading]])
    [] action.type = SET_WIDGET_ERROR ->
         MapRef(h, s, action.payload.id,
                [k \in DOMAIN h[s].array |->
                   [h[h[s].array[k]].object EXCEPT !.error = action.payload.error,
                                                  !.loading = FALSE]])
    [] OTHER -> [heap |-> h, ref |-> s]

\* the list an array of the heap stands for
Deref(h, s) == [k \in DOMAIN h[s].array |-> h[h[s].array[k]].object]

\* ------------------------------------------------------------------- cache
\* a getCached that stamps the entry it hits with the time of the read
getCached_RenewsOnHit(c, key, t) ==
  IF key \notin DOMAIN c
  THEN [value |-> NULL, cache |-> c]
  ELSE IF t - c[key].timestamp > CACHE_DURATION
       THEN [value |-> NULL, cache |-> [k \in DOMAIN c \ {key} |-> c[k]]]
       ELSE [value |-> c[key].data,
             cache |-> [c EXCEPT ![key] = [data |-> c[key].data, timestamp |-> t]]]

\* a getCached that returns null for an expired entry and leaves it in the Map
getCached_KeepsExpired(c, key, t) ==
  IF key \notin DOMAIN c
  THEN [value |-> NULL, cache |-> c]
  ELSE IF t - c[key].timestamp > CACHE_DURATION
       THEN [value |-> NULL, cache |-> c]
       ELSE [value |-> c[key].data, cache |-> c]

\* a getCached whose entries expire on reaching CACHE_DURATION
getCached_ExpiresAtWindow(c, key, t) ==
  IF key \notin DOMAIN c
  THEN [value |-> NULL, cache |-> c]
  ELSE IF t - c[key].timestamp >= CACHE_DURATION
       THEN [value |-> NULL, cache |-> [k \in DOMAIN c \ {key} |-> c[k]]]
       ELSE [value |-> c[key].data, cache |-> c]

\* getCached(key) at time t: the value returned and the Map afterwards
getCached(c, key, t) ==
  IF key \notin DOMAIN c
  THEN [value |-> NULL, cache |-> c]
  ELSE IF t - c[key].timestamp > CACHE_DURATION
       THEN [value |-> NULL, cache |-> [k \in DOMAIN c \ {key} |-> c[k]]]
       ELSE [value |-> c[key].data, cache |-> c]

\* a setCache that writes only keys the Map does not hold
setCache_KeepsExisting(c, key, data, t) ==
  [k \in DOMAIN c \cup {key} |->
     IF k \in DOMAIN c THEN c[k] ELSE [data |-> data, timestamp |-> t]]

\* a setCache that keeps the timestamp of an entry it replaces
setCache_KeepsFirstTimestamp(c, key, data, t) ==
  [k \in DOMAIN c \cup {key} |->
     IF k = key
     THEN [data |-> data, timestamp |-> IF key \in DOMAIN c THEN c[key].timestamp ELSE t]
     ELSE c[k]]

\* setCache(key, data) at time t: the Map afterwards
setCache(c, key, data, t) ==
  [k \in DOMAIN c \cup {key} |->
     IF k = key THEN [data |-> data, timestamp |-> t] ELSE c[k]]

\* clearCache(): the Map afterwards
clearCache(c) == <<>>

\* getCacheSize()
getCacheSize(c) == Cardinality(DOMAIN c)

\* a cache key made of the widget type alone
CacheKey_OfTypeOnly(widgetType, widgetId) == <<widgetType, 0>>

\* const cacheKey = `${widgetType}-${widgetId}`
CacheKey(widgetType, widgetId) == <<widgetType, widgetId>>

\* ----------------------------------------------------------- log entries
Called(name, args) == [op |-> "call", name |-> name, args |-> args]
Dispatched(action) == [op |-> "dispatch", action |-> action]
GotCached(key, value) == [op |-> "getCached", key |-> key, value |-> value]
SetCached(key, data) == [op |-> "setCache", key |-> key, data |-> data]
FetchStarted(type, id) == [op |-> "fetch", type |-> type, id |-> id]
Scheduled(args) == [op |-> "setTimeout", args |-> args]
Fired(args, calls) == [op |-> "timeout", args |-> args, calls |-> calls]
Thrown(message) == [op |-> "throw", message |-> message]
Returned(value) == [op |-> "return", value |-> value]

\* a fetch awaiting the backend: the arguments its continuation closes over
Fetch(type, id) == [type |-> type, id |-> id]

NoTimer == [pending |-> FALSE, args |-> <<>>, due |-> 0]

\* ------------------------------------------------------------ orchestrator
\* a fetchWidgetData whose cache-hit branch lacks its return
FetchWidgetData_NoReturnOnHit(ws, widgetType, widgetId, pre) ==
  LET cacheKey == CacheKey(widgetType, widgetId)
      cached == getCached(cache, cacheKey, now)
      hit == [type |-> UPDATE_WIDGET_DATA,
              payload |-> [id |-> widgetId, data |-> cached.value]]
      loading == [type |-> SET_WIDGET_LOADING,
                  payload |-> [id |-> widgetId, loading |-> TRUE]]
      onHit == IF cached.value # NULL THEN <<Dispatched(hit)>> ELSE <<>>
      afterHit == IF cached.value # NULL THEN widgetReducer(ws, hit) ELSE ws
  IN /\ widgets' = widgetReducer(afterHit, loading)
     /\ cache' = cached.cache
     /\ inflight' = inflight (+) SetToBag({Fetch(widgetType, widgetId)})
     /\ log' = pre \o <<GotCached(cacheKey, cached.value)>> \o onHit
                \o <<Dispatched(loading), FetchStarted(widgetType, widgetId)>>

\* fetchWidgetData(widgetType, widgetId) up to its await, called in a task
\* that has already turned the list into ws and logged pre
FetchWidgetData(ws, widgetType, widgetId, pre) ==
  LET cacheKey == CacheKey(widgetType, widgetId)
      cached == getCached(cache, cacheKey, now)
  IN IF cached.value # NULL
     THEN LET hit == [type |-> UPDATE_WIDGET_DATA,
                      payload |-> [id |-> widgetId, data |-> cached.value]]
          IN /\ widgets' = widgetReducer(ws, hit)
             /\ cache' = cached.cache
             /\ inflight' = inflight
             /\ log' = pre \o <<GotCached(cacheKey, cached.value), Dispatched(hit)>>
     ELSE LET loading == [type |-> SET_WIDGET_LOADING,
                          payload |-> [id |-> widgetId, loading |-> TRUE]]
          IN /\ widgets' = widgetReducer(ws, loading)
             /\ cache' = cached.cache
             /\ inflight' = inflight (+) SetToBag({Fetch(widgetType, widgetId)})
             /\ log' = pre \o <<GotCached(cacheKey, cached.value), Dispatched(loading),
                                FetchStarted(widgetType, widgetId)>>

\* generateWidgetId(): `widget-${Date.now()}-${random}`, a string never
\* produced before; the n-th id is modelled by the number n
generateWidgetId == nextId

\* an addWidget that hands the first fetch of the new widget to the debouncer
AddWidget_Debounced(type) ==
  /\ LET newWidget == [id |-> generateWidgetId, type |-> toLowerCase(type),
                       data |-> NULL, loading |-> FALSE, error |-> NULL,
                       createdAt |-> now]
         add == [type |-> ADD_WIDGET, payload |-> newWidget]
     IN /\ widgets' = widgetReducer(widgets, add)
        /\ timer' = [pending |-> TRUE, args |-> <<newWidget.type, newWidget.id>>,
                     due |-> now + DEBOUNCE_DELAY]
        /\ burst' = Append(burst, [args |-> <<newWidget.type, newWidget.id>>, at |-> now])
        /\ log' = <<Called("addWidget", <<type>>), Dispatched(add), Scheduled(timer'.args)>>
  /\ nextId' = nextId + 1
  /\ UNCHANGED <<cache, now, inflight, coordinator, memory>>

\* addWidget(type)
AddWidget(type) ==
  /\ LET newWidget == [id |-> generateWidgetId, type |-> toLowerCase(type),
                       data |-> NULL, loading |-> FALSE, error |-> NULL,
                       createdAt |-> now]
         add == [type |-> ADD_WIDGET, payload |-> newWidget]
     IN FetchWidgetData(widgetReducer(widgets, add), newWidget.type, newWidget.id,
                        <<Called("addWidget", <<type>>), Dispatched(add)>>)
  /\ nextId' = nextId + 1
  /\ UNCHANGED <<now, timer, burst, coordinator, memory>>

\* a removeWidget that also gives up the fetches and the pending refresh of
\* the removed widget
RemoveWidget_Cancels(widgetId) ==
  LET remove == [type |-> REMOVE_WIDGET, payload |-> widgetId]
      kept == {f \in BagToSet(inflight) : f.id # widgetId}
  IN /\ widgets' = widgetReducer(widgets, remove)
     /\ inflight' = [f \in kept |-> inflight[f]]
     /\ timer' = IF timer.pending /\ timer.args[2] = widgetId
                 THEN [pending |-> FALSE, args |-> <<>>, due |-> 0] ELSE timer
     /\ burst' = IF timer.pending /\ timer.args[2] = widgetId THEN <<>> ELSE burst
     /\ log' = <<Called("removeWidget", <<widgetId>>), Dispatched(remove)>>
     /\ UNCHANGED <<cache, now, nextId, coordinator, memory>>

\* removeWidget(widgetId)
RemoveWidget(widgetId) ==
  LET remove == [type |-> REMOVE_WIDGET, payload |-> widgetId]
  IN /\ widgets' = widgetReducer(widgets, remove)
     /\ log' = <<Called("removeWidget", <<widgetId>>), Dispatched(remove)>>
     /\ UNCHANGED <<cache, now, timer, inflight, nextId, burst, coordinator, memory>>

\* the debounced function called with args: the pending timeout is replaced
\* by one that is due DEBOUNCE_DELAY from now
debouncedRefresh(widgetType, widgetId) ==
  [pending |-> TRUE, args |-> <<widgetType, widgetId>>, due |-> now + DEBOUNCE_DELAY]

\* a refreshWidget that calls fetchWidgetData itself, past the debouncer
RefreshWidget_Undebounced(widget) ==
  /\ FetchWidgetData(widgets, widget.type, widget.id, <<Called("refreshWidget", <<widget>>)>>)
  /\ UNCHANGED <<now, timer, nextId, burst, coordinator, memory>>

\* refreshWidget(widget)
RefreshWidget(widget) ==
  /\ timer' = debouncedRefresh(widget.type, widget.id)
  /\ burst' = Append(burst, [args |-> <<widget.type, widget.id>>, at |-> now])
  /\ log' = <<Called("refreshWidget", <<widget>>), Scheduled(timer'.args)>>
  /\ UNCHANGED <<widgets, cache, now, inflight, nextId, coordinator, memory>>

\* reorderWidgets(fromIndex, toIndex)
ReorderWidgets(fromIndex, toIndex) ==
  LET reorder == [type |-> REORDER_WIDGETS,
                  payload |-> [fromIndex |-> fromIndex, toIndex |-> toIndex]]
  IN /\ widgets' = widgetReducer(widgets, reorder)
     /\ log' = <<Called("reorderWidgets", <<fromIndex, toIndex>>), Dispatched(reorder)>>
     /\ UNCHANGED <<cache, now, timer, inflight, nextId, burst, coordinator, memory>>

\* a timeout that runs the wrapped function only for a widget still in the list
DebounceFire_SkipsRemoved ==
  /\ timer.pending
  /\ now = timer.due
  /\ IF \E i \in DOMAIN widgets : widgets[i].id = timer.args[2]
     THEN FetchWidgetData(widgets, timer.args[1], timer.args[2], <<Fired(timer.args, burst)>>)
     ELSE /\ UNCHANGED <<widgets, cache, inflight>>
          /\ log' = <<Fired(timer.args, burst)>>
  /\ timer' = NoTimer
  /\ burst' = <<>>
  /\ UNCHANGED <<now, nextId, coordinator, memory>>

\* the debouncer's timeout fires: the wrapped function runs with the last args
DebounceFire ==
  /\ timer.pending
  /\ now = timer.due
  /\ FetchWidgetData(widgets, timer.args[1], timer.args[2], <<Fired(timer.args, burst)>>)
  /\ timer' = NoTimer
  /\ burst' = <<>>
  /\ UNCHANGED <<now, nextId, coordinator, memory>>

\* widgetService.fetchWidgetData(widgetType) resolves with a payload, and
\* fetchWidgetData continues after its await: setCache, then dispatch
ServiceData(widgetType, sample) == [kind |-> widgetType, value |-> sample]

\* a success continuation that does nothing when its widget has been removed
FetchSucceed_SkipsRemoved(f, sample) ==
  /\ BagIn(f, inflight)
  /\ f.type \in ServiceTypes
  /\ LET data == ServiceData(f.type, sample)
         cacheKey == CacheKey(f.type, f.id)
         update == [type |-> UPDATE_WIDGET_DATA, payload |-> [id |-> f.id, data |-> data]]
     IN IF \E i \in DOMAIN widgets : widgets[i].id = f.id
        THEN /\ cache' = setCache(cache, cacheKey, data, now)
             /\ widgets' = widgetReducer(widgets, update)
             /\ log' = <<SetCached(cacheKey, data), Dispatched(update)>>
        ELSE /\ UNCHANGED <<cache, widgets>>
             /\ log' = <<>>
  /\ inflight' = inflight (-) SetToBag({f})
  /\ UNCHANGED <<now, timer, nextId, burst, coordinator, memory>>

FetchSucceed(f, sample) ==
  /\ BagIn(f, inflight)
  /\ f.type \in ServiceTypes
  /\ LET data == ServiceData(f.type, sample)
         cacheKey == CacheKey(f.type, f.id)
         update == [type |-> UPDATE_WIDGET_DATA, payload |-> [id |-> f.id, data |-> data]]
     IN /\ cache' = setCache(cache, cacheKey, data, now)
        /\ widgets' = widgetReducer(widgets, update)
        /\ log' = <<SetCached(cacheKey, data), Dispatched(update)>>
  /\ inflight' = inflight (-) SetToBag({f})
  /\ UNCHANGED <<now, timer, nextId, burst, coordinator, memory>>

\* the messages widgetService.fetchWidgetData(widgetType) can throw
ServiceErrors(widgetType) ==
  {"Network error occurred"}
    \cup (IF widgetType \in ServiceTypes THEN {} ELSE {"Unknown widget type"})

\* the fetch rejects, and fetchWidgetData continues in its catch block
FetchFail(f, message) ==
  /\ BagIn(f, inflight)
  /\ message \in ServiceErrors(f.type)
  /\ LET failed == [type |-> SET_WIDGET_ERROR,
                    payload |-> [id |-> f.id, error |-> [message |-> message]]]
     IN /\ widgets' = widgetReducer(widgets, failed)
        /\ log' = <<Thrown(message), Dispatched(failed)>>
  /\ inflight' = inflight (-) SetToBag({f})
  /\ UNCHANGED <<cache, now, timer, nextId, burst, coordinator, memory>>

\* time passes, and a fetch that has been awaited for longer than the
\* debounce delay is given up: its widget gets an error and stops loading
Elapse_GivesUpFetches(d) ==
  /\ timer.pending => now + d <= timer.due
  /\ now' = now + d
  /\ widgets' = [i \in DOMAIN widgets |->
                   IF widgets[i].loading /\ d > DEBOUNCE_DELAY
                   THEN [widgets[i] EXCEPT !.loading = FALSE,
                                           !.error = [message |-> "Request timed out"]]
                   ELSE widgets[i]]
  /\ log' = <<>>
  /\ UNCHANGED <<cache, timer, inflight, nextId, burst, coordinator, memory>>

\* time passes; a pending timeout fires when it is due, never later
Elapse(d) ==
  /\ timer.pending => now + d <= timer.due
  /\ now' = now + d
  /\ log' = <<>>
  /\ UNCHANGED <<widgets, cache, timer, inflight, nextId, burst, coordinator, memory>>

\* the clock of the dashboard is advanced only while something waits on it:
\* by a step of at most DEBOUNCE_DELAY while a timeout is pending, by a
\* longer one while the cache holds an entry that can age
Tick(d) ==
  /\ IF d <= DEBOUNCE_DELAY THEN timer.pending ELSE DOMAIN cache # {}
  /\ Elapse(d)

Init ==
  /\ widgets = <<>>
  /\ cache = <<>>
  /\ now = 0
  /\ timer = NoTimer
  /\ inflight = EmptyBag
  /\ nextId = 1
  /\ steps = 0
  /\ burst = <<>>
  /\ log = <<>>
  /\ draggedIndex = NoIndex
  /\ dragOverIndex = NoIndex
  /\ heap = <<Arr(<<>>)>>
  /\ root = 1

\* the event loop runs one task, while the behaviour has room for one
Bounded(max, task) == steps < max /\ task /\ steps' = steps + 1
Task(task) == Bounded(MaxSteps, task)

Next ==
  \/ \E type \in AddTypes : Task(AddWidget(type))
  \/ \E widgetId \in 1..(nextId - 1) : Task(RemoveWidget(widgetId))
  \/ \E i \in DOMAIN widgets : Task(RefreshWidget(widgets[i]))
  \/ \E fromIndex, toIndex \in 0..(Len(widgets) - 1) :
       fromIndex # toIndex /\ Task(ReorderWidgets(fromIndex, toIndex))
  \/ Task(DebounceFire)
  \/ \E f \in BagToSet(inflight), sample \in Samples : Task(FetchSucceed(f, sample))
  \/ \E f \in BagToSet(inflight) : \E message \in ServiceErrors(f.type) :
       Task(FetchFail(f, message))
  \/ \E d \in TickSteps : Task(Tick(d))

Spec == Init /\ [][Next]_vars

\* ------------------------------------------- every started fetch settles
\* the fetch f settles and its continuation runs
Settle(f) ==
  /\ \/ \E sample \in Samples : FetchSucceed(f, sample)
     \/ \E message \in ServiceErrors(f.type) : FetchFail(f, message)
  /\ steps' = steps

\* the fetches a behaviour of LiveSpec can start
LiveFetches == {Fetch(toLowerCase(type), id) : type \in AddTypes, id \in 1..MaxLiveSteps}

LiveNext ==
  \/ \E type \in AddTypes : Bounded(MaxLiveSteps, AddWidget(type))
  \/ \E widgetId \in 1..(nextId - 1) : Bounded(MaxLiveSteps, RemoveWidget(widgetId))
  \/ \E i \in DOMAIN widgets : Bounded(MaxLiveSteps, RefreshWidget(widgets[i]))
  \/ \E fromIndex, toIndex \in 0..(Len(widgets) - 1) :
       fromIndex # toIndex /\ Bounded(MaxLiveSteps, ReorderWidgets(fromIndex, toIndex))
  \/ Bounded(MaxLiveSteps, DebounceFire)
  \/ \E f \in BagToSet(inflight) : Settle(f)
  \/ \E d \in TickSteps : Bounded(MaxLiveSteps, Tick(d))

\* the backend answers every fetch, with a payload or with an error
LiveSpec == Init /\ [][LiveNext]_vars /\ \A f \in LiveFetches : WF_vars(Settle(f))

\* ----------------------------------------------------- the cache hook alone
\* useCache() as its caller sees it: getCached, setCache, clearCache and
\* getCacheSize called in any order while time passes
CacheKeys == {CacheKey("weather", 1), CacheKey("stock", 2)}
CacheData == {ServiceData("weather", sample) : sample \in Samples}
\* the amounts of time (ms) that pass between two calls of the hook
CacheSteps == {1, 299999}

Sized(value) == [op |-> "size", value |-> value]
Cleared == [op |-> "clear"]

GetCached(key) ==
  LET cached == getCached(cache, key, now)
  IN /\ cache' = cached.cache
     /\ log' = <<Called("getCached", <<key>>), GotCached(key, cached.value)>>
     /\ UNCHANGED <<widgets, now, timer, inflight, nextId, burst, coordinator, memory>>

SetCache(key, data) ==
  /\ cache' = setCache(cache, key, data, now)
  /\ log' = <<Called("setCache", <<key, data>>), SetCached(key, data)>>
  /\ UNCHANGED <<widgets, now, timer, inflight, nextId, burst, coordinator, memory>>

ClearCache ==
  /\ cache' = clearCache(cache)
  /\ log' = <<Called("clearCache", <<>>), Cleared>>
  /\ UNCHANGED <<widgets, now, timer, inflight, nextId, burst, coordinator, memory>>

GetCacheSize ==
  /\ log' = <<Called("getCacheSize", <<>>), Sized(getCacheSize(cache))>>
  /\ UNCHANGED <<widgets, cache, now, timer, inflight, nextId, burst, coordinator, memory>>

CacheNext ==
  \/ \E key \in CacheKeys : Task(GetCached(key))
  \/ \E key \in CacheKeys, data \in CacheData : Task(SetCache(key, data))
  \/ Task(ClearCache)
  \/ Task(GetCacheSize)
  \/ \E d \in CacheSteps : Task(Elapse(d))

SpecCache == Init /\ [][CacheNext]_vars

\* ------------------------------------------------------- the reducer alone
\* widgetReducer applied to an action and then to its own result, from the
\* empty list, with every kind of action a caller can build
ReducerIds == 1..nextId
ReducerIndices(state) == (0 - 1)..(Len(state) + 1)
UNKNOWN_ACTION == "RESET_WIDGETS"

ReducerActions(state) ==
  {[type |-> ADD_WIDGET,
    payload |-> [id |-> nextId, type |-> "weather", data |-> NULL,
                 loading |-> FALSE, error |-> NULL, createdAt |-> 0]]}
  \cup {[type |-> REMOVE_WIDGET, payload |-> id] : id \in ReducerIds}
  \cup {[type |-> REORDER_WIDGETS, payload |-> [fromIndex |-> fromIndex, toIndex |-> toIndex]] :
          fromIndex \in ReducerIndices(state), toIndex \in ReducerIndices(state)}
  \cup {[type |-> UPDATE_WIDGET_DATA, payload |-> [id |-> id, data |-> ServiceData("weather", 1)]] :
          id \in ReducerIds}
  \cup {[type |-> SET_WIDGET_LOADING, payload |-> [id |-> id, loading |-> loading]] :
          id \in ReducerIds, loading \in BOOLEAN}
  \cup {[type |-> SET_WIDGET_ERROR,
         payload |-> [id |-> id, error |-> [message |-> "Network error occurred"]]] :
          id \in ReducerIds}
  \cup {[type |-> UNKNOWN_ACTION, payload |-> NULL]}

\* widgetReducer(widgets, action) is called; what it returns is the next state
Reduce(action) ==
  /\ IF Throws(widgets, action)
     THEN /\ widgets' = widgets
          /\ log' = <<Called("widgetReducer", <<widgets, action>>), Thrown("TypeError")>>
     ELSE /\ widgets' = widgetReducer(widgets, action)
          /\ log' = <<Called("widgetReducer", <<widgets, action>>), Returned(widgets')>>
  /\ nextId' = IF action.type = ADD_WIDGET THEN nextId + 1 ELSE nextId
  /\ UNCHANGED <<cache, now, timer, inflight, burst, coordinator, memory>>

ReducerNext ==
  \E action \in ReducerActions(widgets) :
    /\ action.type = ADD_WIDGET => Len(widgets) < MaxWidgets
    /\ Task(Reduce(action))

SpecReducer == Init /\ [][ReducerNext]_vars

\* ------------------------------------- reorderWidgets called with any index
\* WidgetList renders the list and reads widget.id of every element: on an
\* undefined element the render throws, and the dashboard is gone
Rendered(ws) == \A i \in DOMAIN ws : ws[i] # UNDEFINED

\* useWidgets as its caller sees it: the operations of Next, and
\* reorderWidgets(fromIndex, toIndex) with whatever integers it is passed
ApiNext ==
  /\ Rendered(widgets)
  /\ \/ Next
     \/ \E fromIndex, toIndex \in ReducerIndices(widgets) :
          Task(ReorderWidgets(fromIndex, toIndex))

SpecApi == Init /\ [][ApiNext]_vars

\* -------------------------------------------- the reducer alone, by reference
\* the actions of ReducerActions on a list of widgets: reorders within the
\* list, and the ADD_WIDGET payload an object the caller has just made
HeapActions ==
  {action \in ReducerActions(widgets) :
     /\ action.type = REORDER_WIDGETS
          => /\ action.payload.fromIndex \in 0..(Len(widgets) - 1)
             /\ action.payload.toIndex \in 0..(Len(widgets) - 1)
     /\ action.type = SET_WIDGET_LOADING => action.payload.loading}

\* widgetReducer(state, action) is called with state the array at root
ReduceRef(action) ==
  LET made == IF action.type = ADD_WIDGET
              THEN Alloc(heap, Obj(action.payload))
              ELSE [heap |-> heap, ref |-> 0]
      passed == IF action.type = ADD_WIDGET
                THEN [action EXCEPT !.payload = made.ref]
                ELSE action
      out == widgetReducerRef(made.heap, root, passed)
  IN /\ heap' = out.heap
     /\ root' = out.ref
     /\ widgets' = Deref(heap', root')
     /\ log' = <<Called("widgetReducer", <<root, passed>>), Returned(out.ref)>>
     /\ nextId' = IF action.type = ADD_WIDGET THEN nextId + 1 ELSE nextId
     /\ UNCHANGED <<cache, now, timer, inflight, burst, coordinator>>

HeapNext ==
  \E action \in HeapActions : Bounded(MaxHeapSteps, ReduceRef(action))

SpecHeap == Init /\ [][HeapNext]_vars

\* ------------------------------------------------ the dashboard with dragging
\* handleDragStart(index)(e)
HandleDragStart(index) ==
  /\ draggedIndex' = index
  /\ dragOverIndex' = dragOverIndex
  /\ log' = <<Called("handleDragStart", <<index>>), Called("setDraggedIndex", <<index>>)>>
  /\ UNCHANGED <<widgets, cache, now, timer, inflight, nextId, burst, memory>>

\* a handleDragOver that records its target whether a drag is going on or not
HandleDragOver_OutsideSession(index) ==
  /\ IF draggedIndex = index
     THEN IF dragOverIndex # NoIndex
          THEN /\ dragOverIndex' = NoIndex
               /\ log' = <<Called("handleDragOver", <<index>>),
                           Called("setDragOverIndex", <<NoIndex>>)>>
          ELSE /\ dragOverIndex' = dragOverIndex
               /\ log' = <<Called("handleDragOver", <<index>>)>>
     ELSE IF dragOverIndex # index
          THEN /\ dragOverIndex' = index
               /\ log' = <<Called("handleDragOver", <<index>>),
                           Called("setDragOverIndex", <<index>>)>>
          ELSE /\ dragOverIndex' = dragOverIndex
               /\ log' = <<Called("handleDragOver", <<index>>)>>
  /\ draggedIndex' = draggedIndex
  /\ UNCHANGED <<widgets, cache, now, timer, inflight, nextId, burst, memory>>

\* a handleDragOver without the snap back: a hover over the source is ignored
HandleDragOver_NoSnapBack(index) ==
  /\ IF draggedIndex # NoIndex /\ draggedIndex # index
     THEN /\ dragOverIndex' = index
          /\ log' = <<Called("handleDragOver", <<index>>),
                      Called("setDragOverIndex", <<index>>)>>
     ELSE /\ dragOverIndex' = dragOverIndex
          /\ log' = <<Called("handleDragOver", <<index>>)>>
  /\ draggedIndex' = draggedIndex
  /\ UNCHANGED <<widgets, cache, now, timer, inflight, nextId, burst, memory>>

\* handleDragOver(index)(e)
HandleDragOver(index) ==
  /\ IF draggedIndex = index
     THEN IF dragOverIndex # NoIndex
          THEN /\ dragOverIndex' = NoIndex
               /\ log' = <<Called("handleDragOver", <<index>>),
                           Called("setDragOverIndex", <<NoIndex>>)>>
          ELSE /\ dragOverIndex' = dragOverIndex
               /\ log' = <<Called("handleDragOver", <<index>>)>>
     ELSE IF draggedIndex # NoIndex /\ dragOverIndex # index
          THEN /\ dragOverIndex' = index
               /\ log' = <<Called("handleDragOver", <<index>>),
                           Called("setDragOverIndex", <<index>>)>>
          ELSE /\ dragOverIndex' = dragOverIndex
               /\ log' = <<Called("handleDragOver", <<index>>)>>
  /\ draggedIndex' = draggedIndex
  /\ UNCHANGED <<widgets, cache, now, timer, inflight, nextId, burst, memory>>

\* a handleDragEnd that cleans up only after a reorder
HandleDragEnd_ResetsAfterReorderOnly ==
  /\ IF /\ draggedIndex # NoIndex
        /\ dragOverIndex # NoIndex
        /\ draggedIndex # dragOverIndex
     THEN LET reorder == [type |-> REORDER_WIDGETS,
                          payload |-> [fromIndex |-> draggedIndex, toIndex |-> dragOverIndex]]
          IN /\ widgets' = widgetReducer(widgets, reorder)
             /\ log' = <<Called("handleDragEnd", <<>>),
                         Called("reorderWidgets", <<draggedIndex, dragOverIndex>>),
                         Dispatched(reorder),
                         Called("setDraggedIndex", <<NoIndex>>),
                         Called("setDragOverIndex", <<NoIndex>>)>>
             /\ draggedIndex' = NoIndex
             /\ dragOverIndex' = NoIndex
     ELSE /\ widgets' = widgets
          /\ log' = <<Called("handleDragEnd", <<>>)>>
          /\ UNCHANGED coordinator
  /\ UNCHANGED <<cache, now, timer, inflight, nextId, burst, memory>>

\* handleDragEnd(e); onReorder is reorderWidgets
HandleDragEnd ==
  /\ IF /\ draggedIndex # NoIndex
        /\ dragOverIndex # NoIndex
        /\ draggedIndex # dragOverIndex
     THEN LET reorder == [type |-> REORDER_WIDGETS,
                          payload |-> [fromIndex |-> draggedIndex, toIndex |-> dragOverIndex]]
          IN /\ widgets' = widgetReducer(widgets, reorder)
             /\ log' = <<Called("handleDragEnd", <<>>),
                         Called("reorderWidgets", <<draggedIndex, dragOverIndex>>),
                         Dispatched(reorder),
                         Called("setDraggedIndex", <<NoIndex>>),
                         Called("setDragOverIndex", <<NoIndex>>)>>
     ELSE /\ widgets' = widgets
          /\ log' = <<Called("handleDragEnd", <<>>),
                      Called("setDraggedIndex", <<NoIndex>>),
                      Called("setDragOverIndex", <<NoIndex>>)>>
  /\ draggedIndex' = NoIndex
  /\ dragOverIndex' = NoIndex
  /\ UNCHANGED <<cache, now, timer, inflight, nextId, burst, memory>>

\* handleDragLeave(e), where contained is e.currentTarget.contains(e.relatedTarget)
HandleDragLeave(contained) ==
  /\ dragOverIndex' = IF ~contained THEN NoIndex ELSE dragOverIndex
  /\ draggedIndex' = draggedIndex
  /\ log' = <<Called("handleDragLeave", <<contained>>)>>
             \o (IF ~contained THEN <<Called("setDragOverIndex", <<NoIndex>>)>> ELSE <<>>)
  /\ UNCHANGED <<widgets, cache, now, timer, inflight, nextId, burst, memory>>

\* Dashboard: useWidgets and useDragAndDrop(reorderWidgets) behind WidgetList,
\* which renders a Widget with the drag handlers for every element of the
\* list, and nothing to drag while the list is empty
DragNext ==
  /\ Rendered(widgets)
  /\ \/ \E type \in AddTypes : Task(AddWidget(type))
     \/ \E widgetId \in 1..(nextId - 1) : Task(RemoveWidget(widgetId))
     \/ \E f \in BagToSet(inflight), sample \in Samples : Task(FetchSucceed(f, sample))
     \/ \E f \in BagToSet(inflight) : \E message \in ServiceErrors(f.type) :
          Task(FetchFail(f, message))
     \/ \E index \in 0..(Len(widgets) - 1) : Task(HandleDragStart(index))
     \/ \E index \in 0..(Len(widgets) - 1) : Task(HandleDragOver(index))
     \/ widgets # <<>> /\ Task(HandleDragEnd)
     \/ \E contained \in BOOLEAN : widgets # <<>> /\ Task(HandleDragLeave(contained))

SpecDrag == Init /\ [][DragNext]_vars

\* ------------------------------------------------------------------ helpers
InList(ws, id) == \E i \in DOMAIN ws : ws[i].id = id
WidgetOf(ws, id) == ws[CHOOSE i \in DOMAIN ws : ws[i].id = id]
Outstanding(id) == \E f \in BagToSet(inflight) : f.id = id
\* the entries of a task's log with the given op, in order
Entries(l, op) == SelectSeq(l, LAMBDA e : e.op = op)
\* the actions a task dispatched, in order
Dispatches(l) == [k \in DOMAIN Entries(l, "dispatch") |-> Entries(l, "dispatch")[k].action]
\* the task was a call of the named operation
IsCall(l, name) == l # <<>> /\ l[1].op = "call" /\ l[1].name = name

\* ------------------------------------------------------------------- C1
\* C1 (as stated): in every reachable state no widget has loading = true
\* together with a present error.
C1_NoLoadingWithError ==
  \A i \in DOMAIN widgets : ~(widgets[i].loading /\ widgets[i].error # NULL)

\* C1 (amended): loading = true and a present error coexist only as a stale
\* error on a widget that is being fetched again: a fetch for the widget is
\* outstanding, and the step that produced the state did not set the error
\* (the widget had the same error before it).
C1_ErrorWhileLoadingIsStale ==
  /\ [](\A i \in DOMAIN widgets :
          (widgets[i].loading /\ widgets[i].error # NULL) => Outstanding(widgets[i].id))
  /\ [][\A i \in DOMAIN widgets' :
          (widgets'[i].loading /\ widgets'[i].error # NULL)
            => /\ InList(widgets, widgets'[i].id)
               /\ WidgetOf(widgets, widgets'[i].id).error = widgets'[i].error]_vars

\* a Failed widget was refreshed, the refresh missed the cache, and the
\* widget is loading with its old error
C1_Witness ==
  \E i \in DOMAIN widgets :
    /\ widgets[i].loading /\ widgets[i].error # NULL
    /\ log # <<>> /\ log[1].op = "timeout" /\ log[1].args[2] = widgets[i].id

\* ------------------------------------------------------------------- C2
\* C2 (as stated): addWidget(type) with a type outside the catalog changes
\* nothing: the list and the cache are unchanged, nothing is dispatched and
\* no fetch is started.
C2_UnknownTypeRejected ==
  [][(IsCall(log', "addWidget") /\ ~isValidWidgetType(log'[1].args[1]))
       => /\ widgets' = widgets
          /\ cache' = cache
          /\ inflight' = inflight
          /\ Dispatches(log') = <<>>
          /\ Entries(log', "fetch") = <<>>]_vars

\* ------------------------------------------------------------------- C3
\* C3: a burst of refreshWidget calls runs fetchWidgetData exactly once: no
\* call runs it itself; while calls are pending one timeout is pending, due
\* DEBOUNCE_DELAY after the last call and not overdue; and the timeout, when
\* it fires, is DEBOUNCE_DELAY after the last call of the burst, runs
\* fetchWidgetData once with that call's (type, id), and leaves nothing pending.
C3_BurstRunsLastCallOnce ==
  /\ [](burst # <<>> =>
          /\ timer.pending
          /\ timer.due = burst[Len(burst)].at + DEBOUNCE_DELAY
          /\ now <= timer.due)
  /\ [][/\ IsCall(log', "refreshWidget")
             => /\ Entries(log', "getCached") = <<>>
                /\ Dispatches(log') = <<>>
                /\ Entries(log', "fetch") = <<>>
                /\ widgets' = widgets /\ cache' = cache /\ inflight' = inflight
        /\ (log' # <<>> /\ log'[1].op = "timeout")
             => LET last == log'[1].calls[Len(log'[1].calls)]
                IN /\ log'[1].calls = burst /\ burst # <<>>
                   /\ log'[1].args = last.args
                   /\ now' = last.at + DEBOUNCE_DELAY
                   /\ Len(Entries(log', "getCached")) = 1
                   /\ Entries(log', "getCached")[1].key = CacheKey(last.args[1], last.args[2])
                   /\ burst' = <<>> /\ ~timer'.pending]_vars

\* the timeout of a burst of two or more calls has fired
C3_Witness ==
  /\ log # <<>> /\ log[1].op = "timeout"
  /\ Len(log[1].calls) >= 2
  /\ \A k \in 1..(Len(log[1].calls) - 1) :
       /\ log[1].calls[k].args = log[1].calls[k + 1].args
       /\ log[1].calls[k + 1].at - log[1].calls[k].at < DEBOUNCE_DELAY
       /\ log[1].calls[k + 1].at > log[1].calls[k].at

\* ------------------------------------------------------------------- C4
\* C4 (as stated): debouncing is keyed per widget: a refresh of one widget
\* never discards the pending refresh of another widget (a pending timeout is
\* only ever replaced by one for the same widget).
C4_RefreshKeyedPerWidget ==
  [][(timer.pending /\ timer'.pending) => timer'.args = timer.args]_vars

\* ------------------------------------------------------------------- C5
\* C5: getCached(key) at time now returns the stored payload if and only if
\* an entry for key exists with now - timestamp <= CACHE_DURATION, and null
\* otherwise; an entry aged exactly CACHE_DURATION is still a hit.
C5_GetNeverStale ==
  [][\A k \in DOMAIN log' :
       log'[k].op = "getCached"
         => log'[k].value =
              (IF /\ log'[k].key \in DOMAIN cache
                  /\ now - cache[log'[k].key].timestamp <= CACHE_DURATION
               THEN cache[log'[k].key].data
               ELSE NULL)]_vars

\* a getCached has just hit an entry aged exactly CACHE_DURATION
C5_Witness ==
  \E k \in DOMAIN log :
    /\ log[k].op = "getCached"
    /\ log[k].value # NULL
    /\ log[k].key \in DOMAIN cache
    /\ now - cache[log[k].key].timestamp = CACHE_DURATION
    /\ log[k].value = cache[log[k].key].data

C7_MissLoadsFetchesThenCaches ==
  [][/\ \A k \in DOMAIN log' :
          (log'[k].op = "getCached" /\ log'[k].value = NULL)
            => LET key == log'[k].key
                   loading == [type |-> SET_WIDGET_LOADING,
                               payload |-> [id |-> key[2], loading |-> TRUE]]
               IN /\ SubSeq(log', k + 1, Len(log'))
                       = <<Dispatched(loading), FetchStarted(key[1], key[2])>>
                  /\ inflight' = inflight (+) SetToBag({Fetch(key[1], key[2])})
                  /\ InList(widgets', key[2]) => WidgetOf(widgets', key[2]).loading
     /\ (log' # <<>> /\ log'[1].op = "setCache")
          => LET key == log'[1].key
                 data == log'[1].data
                 update == [type |-> UPDATE_WIDGET_DATA,
                            payload |-> [id |-> key[2], data |-> data]]
             IN /\ BagIn(Fetch(key[1], key[2]), inflight)
                /\ log' = <<SetCached(key, data), Dispatched(update)>>
                /\ key \in DOMAIN cache'
                /\ cache'[key] = [data |-> data, timestamp |-> now']
                /\ \A other \in DOMAIN cache' \ {key} :
                     other \in DOMAIN cache /\ cache'[other] = cache[other]
                /\ InList(widgets', key[2])
                     => /\ WidgetOf(widgets', key[2]).data = data
                        /\ ~WidgetOf(widgets', key[2]).loading
                        /\ WidgetOf(widgets', key[2]).error = NULL]_vars

\* a fetch started on a miss has succeeded: the payload is cached under the
\* widget's key and the widget is Ready with it
C7_Witness ==
  /\ Len(log) = 2 /\ log[1].op = "setCache"
  /\ log[1].key \in DOMAIN cache /\ cache[log[1].key].data = log[1].data
  /\ InList(widgets, log[1].key[2])
  /\ WidgetOf(widgets, log[1].key[2]).data = log[1].data
  /\ ~WidgetOf(widgets, log[1].key[2]).loading
  /\ ~Outstanding(log[1].key[2])

\* ------------------------------------------------------------------- C8
\* C8: a failure of the external fetch is caught and becomes state: the
\* continuation dispatches SET_WIDGET_ERROR(id, message) and nothing else,
\* the widget gets the error and loading = false and keeps the data it had,
\* the other widgets and the cache are unchanged.
C8_FailureBecomesState ==
  [][(log' # <<>> /\ log'[1].op = "throw")
       => /\ Len(log') = 2 /\ log'[2].op = "dispatch"
          /\ log'[2].action.type = SET_WIDGET_ERROR
          /\ log'[2].action.payload.error = [message |-> log'[1].message]
          /\ cache' = cache
          /\ Len(widgets') = Len(widgets)
          /\ \A i \in DOMAIN widgets :
               IF widgets[i].id = log'[2].action.payload.id
               THEN widgets'[i] = [widgets[i] EXCEPT
                                     !.error = [message |-> log'[1].message],
                                     !.loading = FALSE]
               ELSE widgets'[i] = widgets[i]]_vars

\* a fetch has failed for a widget that had data: the widget is Failed and
\* still has the data
C8_Witness ==
  /\ log # <<>> /\ log[1].op = "throw"
  /\ InList(widgets, log[2].action.payload.id)
  /\ WidgetOf(widgets, log[2].action.payload.id).data # NULL
  /\ WidgetOf(widgets, log[2].action.payload.id).error = [message |-> log[1].message]
  /\ ~WidgetOf(widgets, log[2].action.payload.id).loading

\* ------------------------------------------------------------------- C9
\* the widget is Ready (data, no error) or Failed (error), and not loading
Settled(id) ==
  LET w == WidgetOf(widgets, id)
  IN /\ ~w.loading
     /\ \/ w.data # NULL /\ w.error = NULL
        \/ w.error # NULL

\* C9: addWidget dispatches ADD_WIDGET with a new widget that has data = null,
\* loading = false and error = null, and the reducer yields the old list with
\* that widget as its last element; and, every fetch settling, a widget in
\* the list is eventually Ready or Failed unless it is removed first.
C9_AddedLastThenSettles ==
  /\ [][IsCall(log', "addWidget")
          => LET add == log'[2].action
                 added == widgetReducer(widgets, add)
             IN /\ log'[2].op = "dispatch" /\ add.type = ADD_WIDGET
                /\ add.payload.data = NULL
                /\ ~add.payload.loading
                /\ add.payload.error = NULL
                /\ ~InList(widgets, add.payload.id)
                /\ Len(added) = Len(widgets) + 1
                /\ added[Len(added)] = add.payload
                /\ SubSeq(added, 1, Len(widgets)) = widgets
                /\ InList(widgets', add.payload.id)
                /\ \E f \in BagToSet(inflight') : f.id = add.payload.id]_vars
  /\ \A id \in 1..MaxLiveSteps :
       InList(widgets, id) ~> (~InList(widgets, id) \/ Settled(id))

\* a second widget was added behind the first, and its fetch has settled
C9_Witness ==
  /\ Len(widgets) >= 2
  /\ widgets[Len(widgets)].id = nextId - 1
  /\ Settled(nextId - 1)
  /\ log # <<>> /\ log[1].op \in {"setCache", "throw"}
  /\ log[2].action.payload.id = nextId - 1

\* ------------------------------------------------------------------ C10
\* C10: an id that is not in the list never comes back, and a fetch
\* continuation (success or failure) for an id that is not in the list
\* leaves the list as it is.
C10_RemovedStaysRemoved ==
  [][/\ \A id \in 1..(nextId - 1) : ~InList(widgets, id) => ~InList(widgets', id)
     /\ (/\ log' # <<>> /\ log'[1].op \in {"setCache", "throw"}
         /\ ~InList(widgets, log'[2].action.payload.id))
          => widgets' = widgets]_vars

\* the fetch of a removed widget has settled while another widget is in the
\* list
C10_Witness ==
  /\ log # <<>> /\ log[1].op \in {"setCache", "throw"}
  /\ log[2].action.payload.id < nextId
  /\ ~InList(widgets, log[2].action.payload.id)
  /\ widgets # <<>>

\* ------------------------------------------------------------------ C11
\* C11 (as stated): in every reachable state every element of the widget
\* list is a widget, and no two elements have the same id.
C11_ListOfDistinctWidgets ==
  /\ Rendered(widgets)
  /\ \A i, j \in DOMAIN widgets : i # j => widgets[i].id # widgets[j].id

\* ------------------------------------------------------------------ C12
\* C12 (as stated): the reducer is total and never throws: whatever actions
\* were applied before, reorders with indices outside the list included,
\* every call of widgetReducer returns.
C12_ReducerNeverThrows ==
  IsCall(log, "widgetReducer") => log[2].op = "return"

\* ------------------------------------------------------------------ C13
\* the list without its element at (0-based) index
WithoutIndex(l, index) ==
  [k \in 1..(Len(l) - 1) |-> IF k <= index THEN l[k] ELSE l[k + 1]]
\* the list with x put at (0-based) index
WithAtIndex(l, index, x) ==
  [k \in 1..(Len(l) + 1) |->
     IF k <= index THEN l[k] ELSE IF k = index + 1 THEN x ELSE l[k - 1]]
\* how often x occurs in the list
Occurrences(l, x) == Cardinality({k \in DOMAIN l : l[k] = x})
\* the call the task made, and what it returned
CallOf(l) == [state |-> l[1].args[1], action |-> l[1].args[2]]

\* C13: for a list of length n and 0 <= fromIndex, toIndex < n,
\* REORDER_WIDGETS returns the list with the element at fromIndex removed and
\* put at toIndex of the shorter list: length n, a permutation of the input,
\* the moved element at toIndex, the others in their old relative order.
C13_ReorderMovesOneElement ==
  [][(/\ IsCall(log', "widgetReducer")
      /\ CallOf(log').action.type = REORDER_WIDGETS
      /\ CallOf(log').action.payload.fromIndex \in 0..(Len(CallOf(log').state) - 1)
      /\ CallOf(log').action.payload.toIndex \in 0..(Len(CallOf(log').state) - 1))
       => LET l == CallOf(log').state
              fromIndex == CallOf(log').action.payload.fromIndex
              toIndex == CallOf(log').action.payload.toIndex
              moved == l[fromIndex + 1]
              result == log'[2].value
          IN /\ log'[2].op = "return"
             /\ result = WithAtIndex(WithoutIndex(l, fromIndex), toIndex, moved)
             /\ Len(result) = Len(l)
             /\ result[toIndex + 1] = moved
             /\ \A k \in DOMAIN l : Occurrences(result, l[k]) = Occurrences(l, l[k])
             /\ WithoutIndex(result, toIndex) = WithoutIndex(l, fromIndex)]_vars

\* [w0, w1, w2, w3] was reordered with (1, 3) and [w0, w2, w3, w1] returned
C13_Witness ==
  /\ IsCall(log, "widgetReducer")
  /\ CallOf(log).action = [type |-> REORDER_WIDGETS,
                           payload |-> [fromIndex |-> 1, toIndex |-> 3]]
  /\ Len(CallOf(log).state) = 4 /\ Rendered(CallOf(log).state)
  /\ log[2].op = "return"
  /\ LET l == CallOf(log).state IN widgets = <<l[1], l[3], l[4], l[2]>>

\* ------------------------------------------------------------------ C14
\* the six action types of WIDGET_ACTIONS
KnownActions == {ADD_WIDGET, REMOVE_WIDGET, REORDER_WIDGETS, UPDATE_WIDGET_DATA,
                 SET_WIDGET_LOADING, SET_WIDGET_ERROR}

\* widgetReducer applied n times to its own result
RECURSIVE ReduceTimes(_, _, _)
ReduceTimes(state, action, n) ==
  IF n = 0 THEN state ELSE ReduceTimes(widgetReducer(state, action), action, n - 1)

\* C14: for every list L and every action whose type is none of the six
\* known types, widgetReducer returns L itself: same elements, same order,
\* same fields; and so does applying it again and again.
C14_UnknownActionReturnsInput ==
  [][(IsCall(log', "widgetReducer") /\ CallOf(log').action.type \notin KnownActions)
       => /\ log'[2] = Returned(CallOf(log').state)
          /\ widgets' = widgets
          /\ \A n \in 0..MaxWidgets :
               ReduceTimes(CallOf(log').state, CallOf(log').action, n) = CallOf(log').state]_vars

\* an unknown action was applied to a list of two or more widgets, one of
\* them with data, and the list was returned
C14_Witness ==
  /\ IsCall(log, "widgetReducer")
  /\ CallOf(log).action.type = UNKNOWN_ACTION
  /\ Len(CallOf(log).state) >= 2 /\ Rendered(CallOf(log).state)
  /\ \E i \in DOMAIN CallOf(log).state : CallOf(log).state[i].data # NULL
  /\ log[2].op = "return" /\ log[2].value = CallOf(log).state

\* ------------------------------------------------------------------ C15
\* C15: REMOVE_WIDGET(id) on a list of widgets returns the list without the
\* widget of that id, every other widget unchanged and in the same relative
\* order; when no widget has the id, the list returned equals the input.
C15_RemoveDropsOnlyThatId ==
  [][(/\ IsCall(log', "widgetReducer")
      /\ CallOf(log').action.type = REMOVE_WIDGET
      /\ Rendered(CallOf(log').state))
       => LET l == CallOf(log').state
              id == CallOf(log').action.payload
              kept == {k \in DOMAIN l : l[k].id # id}
              result == log'[2].value
          IN /\ log'[2].op = "return"
             /\ ~InList(result, id)
             /\ Len(result) = Cardinality(kept)
             /\ \A k \in kept : result[Cardinality({j \in kept : j <= k})] = l[k]
             /\ ~InList(l, id) => result = l]_vars

\* a widget that is neither first nor last was removed from a list whose
\* widgets have data, and the two around it are now neighbours
C15_Witness ==
  /\ IsCall(log, "widgetReducer")
  /\ CallOf(log).action.type = REMOVE_WIDGET
  /\ Len(CallOf(log).state) = 3 /\ Rendered(CallOf(log).state)
  /\ CallOf(log).state[2].id = CallOf(log).action.payload
  /\ CallOf(log).state[1].data # NULL
  /\ log[2].op = "return"
  /\ widgets = <<CallOf(log).state[1], CallOf(log).state[3]>>

\* ------------------------------------------------------------------ C16
\* the addresses an array of the heap holds
Elements(h, s) == {h[s].array[k] : k \in DOMAIN h[s].array}
\* the action targets the widget at address w: it is of a case that maps
\* over the list, and the widget has the id of its payload
Targets(h, action, w) ==
  /\ action.type \in {UPDATE_WIDGET_DATA, SET_WIDGET_LOADING, SET_WIDGET_ERROR}
  /\ h[w].object.id = action.payload.id

\* C16: the reducer does not mutate its input: after widgetReducer(L, A) every
\* object that existed before (L, its widgets, the widgets of earlier
\* lists) has the fields and elements it had; every widget of L that A does
\* not target is in the result as the very same object; a new object in the
\* result is the ADD_WIDGET payload or stands at the place of a widget A
\* targets; and a targeted widget whose fields change is such a new object.
C16_ReducerDoesNotMutate ==
  [][IsCall(log', "widgetReducer")
       => LET l == log'[1].args[1]
              action == log'[1].args[2]
              result == log'[2].value
          IN /\ l = root /\ result = root'
             /\ \A a \in DOMAIN heap : heap'[a] = heap[a]
             /\ Deref(heap', l) = widgets
             /\ \A k \in DOMAIN heap'[result].array :
                  LET w == heap'[result].array[k]
                  IN \/ w \in Elements(heap, l)
                     \/ action.type = ADD_WIDGET /\ w = action.payload
                     \/ /\ w \notin DOMAIN heap
                        /\ k \in DOMAIN heap[l].array
                        /\ Targets(heap, action, heap[l].array[k])
             /\ action.type \in {UPDATE_WIDGET_DATA, SET_WIDGET_LOADING, SET_WIDGET_ERROR}
                  => /\ Len(heap'[result].array) = Len(heap[l].array)
                     /\ \A k \in DOMAIN heap[l].array :
                          LET old == heap[l].array[k]
                              new == heap'[result].array[k]
                          IN /\ ~Targets(heap, action, old) => new = old
                             /\ heap'[new].object # heap[old].object => new \notin DOMAIN heap
             /\ action.type \in {REMOVE_WIDGET, REORDER_WIDGETS}
                  => Elements(heap', result) \subseteq Elements(heap, l)]_vars

\* of a list of two widgets one was targeted and changed: it is a new object
\* in the result, the other is the same object, and the old list still
\* holds the old one
C16_Witness ==
  /\ IsCall(log, "widgetReducer")
  /\ log[1].args[2].type = UPDATE_WIDGET_DATA
  /\ Len(heap[root].array) = 2
  /\ \E k, other \in 1..2 :
       /\ k # other
       /\ heap[root].array[k] # heap[log[1].args[1]].array[k]
       /\ heap[heap[root].array[k]].object.data # NULL
       /\ heap[heap[log[1].args[1]].array[k]].object.data = NULL
       /\ heap[root].array[other] = heap[log[1].args[1]].array[other]

\* ------------------------------------------------------------------ C17
\* the calls of the named operation in a task's log
CallsOf(l, name) == SelectSeq(l, LAMBDA e : e.op = "call" /\ e.name = name)

\* C17: handleDragEnd calls reorderWidgets(draggedIndex, dragOverIndex)
\* exactly once if both indices are non-null and unequal, and otherwise
\* calls and dispatches nothing and leaves the list alone; in every case
\* both indices are null afterwards.
C17_DragEndCommitsOnceAndResets ==
  [][IsCall(log', "handleDragEnd")
       => /\ IF /\ draggedIndex # NoIndex
                /\ dragOverIndex # NoIndex
                /\ draggedIndex # dragOverIndex
             THEN /\ CallsOf(log', "reorderWidgets")
                       = <<Called("reorderWidgets", <<draggedIndex, dragOverIndex>>)>>
                  /\ Dispatches(log')
                       = <<[type |-> REORDER_WIDGETS,
                            payload |-> [fromIndex |-> draggedIndex,
                                         toIndex |-> dragOverIndex]]>>
                  /\ widgets' = widgetReducer(widgets, Dispatches(log')[1])
             ELSE /\ CallsOf(log', "reorderWidgets") = <<>>
                  /\ Dispatches(log') = <<>>
                  /\ widgets' = widgets
          /\ Entries(log', "throw") = <<>>
          /\ draggedIndex' = NoIndex
          /\ dragOverIndex' = NoIndex
          /\ UNCHANGED <<cache, inflight, timer>>]_vars

\* a drag over another widget has ended: reorderWidgets was called once, the
\* list is reordered and both indices are null
C17_Witness ==
  /\ IsCall(log, "handleDragEnd")
  /\ Len(CallsOf(log, "reorderWidgets")) = 1
  /\ Len(widgets) >= 2 /\ Rendered(widgets)
  /\ widgets[1].id > widgets[2].id
  /\ draggedIndex = NoIndex /\ dragOverIndex = NoIndex

\* ------------------------------------------------------------------ C18
\* C18: a hover over index i makes i the target only when a drag is in
\* progress, i is not the source and i is not the target already; it then
\* does; a hover over the source resets the target to null; nothing else
\* changes; so after a hover the target is never the source.
C18_HoverNeverTargetsTheSource ==
  [][IsCall(log', "handleDragOver")
       => LET i == log'[1].args[1]
          IN /\ draggedIndex' = draggedIndex
             /\ dragOverIndex' \in {dragOverIndex, i, NoIndex}
             /\ (dragOverIndex' = i /\ dragOverIndex # i)
                  => (draggedIndex # NoIndex /\ i # draggedIndex)
             /\ (draggedIndex # NoIndex /\ i # draggedIndex) => dragOverIndex' = i
             /\ i = draggedIndex => dragOverIndex' = NoIndex
             /\ draggedIndex = NoIndex => dragOverIndex' = dragOverIndex
             /\ dragOverIndex' # NoIndex => dragOverIndex' # draggedIndex'
             /\ widgets' = widgets]_vars

\* during a drag the pointer is back over the source after it had been over
\* another widget: the target was reset, there is none
C18_Witness ==
  /\ IsCall(log, "handleDragOver")
  /\ draggedIndex # NoIndex
  /\ log[1].args[1] = draggedIndex
  /\ log[Len(log)] = Called("setDragOverIndex", <<NoIndex>>)
  /\ dragOverIndex = NoIndex

\* ------------------------------------------------------------------ C19
\* C19 (as stated): no fetch is started for a widget's id while an earlier
\* fetch for the same id is still unresolved.
C19_OneFetchInFlightPerWidget ==
  [][\A k \in DOMAIN log' :
       log'[k].op = "fetch" => ~Outstanding(log'[k].id)]_vars

\* ------------------------------------------------------------------ C20
\* C20: a widget in the list has loading = true only if a fetch for its id is
\* outstanding; and the continuation of a fetch, success or failure, leaves
\* the widget of its id with loading = false, so that a widget whose last
\* outstanding fetch has completed is not loading.
C20_LoadingOnlyWhileFetching ==
  /\ [](\A i \in DOMAIN widgets : widgets[i].loading => Outstanding(widgets[i].id))
  /\ [][(log' # <<>> /\ log'[1].op \in {"setCache", "throw"})
          => LET id == log'[2].action.payload.id
             IN InList(widgets', id) => ~WidgetOf(widgets', id).loading]_vars

\* the last of two overlapping fetches of a widget has completed: nothing is
\* outstanding for it and it is not loading
C20_Witness ==
  /\ log # <<>> /\ log[1].op \in {"setCache", "throw"}
  /\ InList(widgets, log[2].action.payload.id)
  /\ ~Outstanding(log[2].action.payload.id)
  /\ ~WidgetOf(widgets, log[2].action.payload.id).loading
  /\ steps = MaxSteps

\* ------------------------------------------------------------------ C21
\* C21 (as stated): a widget enters Failed only from Loading: whenever a
\* SET_WIDGET_ERROR dispatch changes a widget, that widget had loading = true
\* immediately before the dispatch.
C21_FailedOnlyFromLoading ==
  [][(log' # <<>> /\ log'[1].op = "throw")
       => LET id == log'[2].action.payload.id
          IN (InList(widgets, id) /\ WidgetOf(widgets', id) # WidgetOf(widgets, id))
               => WidgetOf(widgets, id).loading]_vars

\* ------------------------------------------------------------------ C22
\* C22: a fetch failure for widget X affects only X.  The SET_WIDGET_ERROR
\* dispatch keeps the length of the list and the id at every position, leaves
\* every other widget as it was and keeps X in the list; and X stays
\* refreshable: a refreshWidget(X) is taken by the debouncer, the timeout of a
\* Failed X that misses the cache starts a fetch for X, and a success for X
\* leaves X without error.
C22_FailureAffectsOnlyThatWidget ==
  /\ [][(log' # <<>> /\ log'[1].op = "throw")
          => LET id == log'[2].action.payload.id
             IN /\ Len(widgets') = Len(widgets)
                /\ \A i \in DOMAIN widgets :
                     /\ widgets'[i].id = widgets[i].id
                     /\ widgets[i].id # id => widgets'[i] = widgets[i]
                /\ InList(widgets, id) => InList(widgets', id)]_vars
  /\ [][\A i \in DOMAIN widgets :
          widgets[i].error # NULL
            => /\ (IsCall(log', "refreshWidget") /\ log'[1].args[1] = widgets[i])
                    => (timer'.pending /\ timer'.args = <<widgets[i].type, widgets[i].id>>)
               /\ (/\ log' # <<>> /\ log'[1].op = "timeout"
                   /\ log'[1].args = <<widgets[i].type, widgets[i].id>>
                   /\ log'[2].value = NULL)
                    => /\ FetchStarted(widgets[i].type, widgets[i].id) = log'[Len(log')]
                       /\ Outstanding(widgets[i].id)'
               /\ (/\ log' # <<>> /\ log'[1].op = "setCache"
                   /\ log'[2].action.payload.id = widgets[i].id)
                    => WidgetOf(widgets', widgets[i].id).error = NULL]_vars

\* of two widgets the first has failed and has been refreshed: its timeout
\* missed the cache and started a new fetch for it, while the second widget
\* is still as addWidget left it, waiting for its own fetch
C22_Witness ==
  /\ Len(widgets) = 2
  /\ log # <<>> /\ log[1].op = "timeout" /\ log[1].args[2] = widgets[1].id
  /\ log[Len(log)] = FetchStarted(widgets[1].type, widgets[1].id)
  /\ widgets[1].error # NULL
  /\ Outstanding(widgets[1].id)
  /\ widgets[2].loading /\ widgets[2].data = NULL /\ widgets[2].error = NULL
  /\ Outstanding(widgets[2].id)

\* ------------------------------------------------------------------ C23
\* the entry of key is older than the freshness window
Expired(key) == key \in DOMAIN cache /\ now - cache[key].timestamp > CACHE_DURATION

\* C23: cache expiry is lazy.  The passing of time and getCacheSize() take
\* nothing out of the store, and getCacheSize() counts every stored entry,
\* expired ones included; getCached(key) of an expired entry deletes that
\* entry alone and returns null, and the size is one less; getCached(key) of a
\* fresh or a missing key leaves the store, and so the size, as it was.
C23_ExpiryIsLazy ==
  /\ [][(log' = <<>> \/ IsCall(log', "getCacheSize")) => cache' = cache]_vars
  /\ [][IsCall(log', "getCacheSize") => log'[2].value = Cardinality(DOMAIN cache)]_vars
  /\ [][IsCall(log', "getCached")
          => LET key == log'[1].args[1]
             IN IF Expired(key)
                THEN /\ log'[2].value = NULL
                     /\ DOMAIN cache' = DOMAIN cache \ {key}
                     /\ \A k \in DOMAIN cache' : cache'[k] = cache[k]
                     /\ getCacheSize(cache') = getCacheSize(cache) - 1
                ELSE /\ cache' = cache
                     /\ getCacheSize(cache') = getCacheSize(cache)]_vars

\* time has passed over two entries, one is expired and has not been read:
\* getCacheSize() has just counted both
C23_Witness ==
  /\ IsCall(log, "getCacheSize")
  /\ log[2].value = 2
  /\ \E key \in DOMAIN cache : Expired(key)
  /\ \E key \in DOMAIN cache : ~Expired(key)

\* ------------------------------------------------------------------ C24
\* C24: cache entries are separate per widget.  An entry is written or
\* replaced only by the success of a fetch, under the key of that fetch's own
\* (type, id), every other entry staying as it was; and a fetchWidgetData for
\* a widget reads the key of that widget's own (type, id), so that it hits
\* only on an entry a fetch for that id has written, and otherwise misses and
\* goes on to load.
C24_EntriesPerWidget ==
  /\ [][\A key \in DOMAIN cache' :
          (key \notin DOMAIN cache \/ cache'[key] # cache[key])
            => /\ log' # <<>> /\ log'[1].op = "setCache"
               /\ log'[1].key = key
               /\ InList(widgets, key[2])
                    => key = CacheKey(WidgetOf(widgets, key[2]).type, key[2])
               /\ log'[2].action.payload.id = key[2]
               /\ cache'[key] = [data |-> log'[2].action.payload.data, timestamp |-> now]]_vars
  /\ [][\A k \in DOMAIN log' :
          log'[k].op = "getCached"
            => /\ log'[k + 1].op = "dispatch"
               /\ log'[k].key[2] = log'[k + 1].action.payload.id
               /\ InList(widgets', log'[k].key[2])
                    => log'[k].key = CacheKey(WidgetOf(widgets', log'[k].key[2]).type,
                                             log'[k].key[2])
               /\ IF log'[k].key \in DOMAIN cache /\ log'[k].value # NULL
                  THEN /\ log'[k + 1].action.type = UPDATE_WIDGET_DATA
                       /\ log'[k + 1].action.payload.data = cache[log'[k].key].data
                  ELSE /\ log'[k].value = NULL
                       /\ log'[k + 1].action.type = SET_WIDGET_LOADING]_vars

\* two widgets of one type; the first has been fetched and its entry is in
\* the cache, fresh; the refresh of the second has just missed the cache and
\* started a fetch of its own
C24_Witness ==
  /\ Len(widgets) = 2
  /\ widgets[1].type = widgets[2].type
  /\ CacheKey(widgets[1].type, widgets[1].id) \in DOMAIN cache
  /\ now - cache[CacheKey(widgets[1].type, widgets[1].id)].timestamp <= CACHE_DURATION
  /\ CacheKey(widgets[2].type, widgets[2].id) \notin DOMAIN cache
  /\ log # <<>> /\ log[1].op = "timeout" /\ log[1].args[2] = widgets[2].id
  /\ log[2] = GotCached(CacheKey(widgets[2].type, widgets[2].id), NULL)
  /\ log[Len(log)] = FetchStarted(widgets[2].type, widgets[2].id)

\* ------------------------------------------------------------------ C25
\* C25: addWidget starts the fetch of the new widget at once and past the
\* debouncer.  When addWidget returns the list is the old list followed by
\* the new widget, whose id is fresh and which has loading = true; the cache
\* was read for the new key and missed; exactly one fetch, the only one for
\* that id, has been added to the outstanding ones; and the debouncer's
\* pending timeout and its arguments are as they were.
C25_AddFetchesAtOnce ==
  [][IsCall(log', "addWidget")
       => LET new == widgets'[Len(widgets')]
          IN /\ Len(widgets') = Len(widgets) + 1
             /\ SubSeq(widgets', 1, Len(widgets)) = widgets
             /\ ~InList(widgets, new.id) /\ ~Outstanding(new.id)
             /\ new.loading /\ new.data = NULL /\ new.error = NULL
             /\ Entries(log', "getCached") = <<GotCached(CacheKey(new.type, new.id), NULL)>>
             /\ Entries(log', "fetch") = <<FetchStarted(new.type, new.id)>>
             /\ inflight' = inflight (+) SetToBag({Fetch(new.type, new.id)})
             /\ CopiesIn(Fetch(new.type, new.id), inflight') = 1
             /\ Entries(log', "setTimeout") = <<>>
             /\ timer' = timer
             /\ burst' = burst]_vars

\* addWidget has returned while a debounced refresh of another widget is
\* pending: the new widget is loading, its fetch is outstanding, and the
\* timeout still waits with the other widget's arguments
C25_Witness ==
  /\ IsCall(log, "addWidget")
  /\ widgets[Len(widgets)].loading
  /\ Outstanding(widgets[Len(widgets)].id)
  /\ timer.pending /\ now < timer.due
  /\ timer.args[2] # widgets[Len(widgets)].id
  /\ InList(widgets, timer.args[2])

\* ------------------------------------------------------------------ C26
\* C26: reorderWidgets and removeWidget each dispatch exactly one action,
\* REORDER_WIDGETS with the two indices or REMOVE_WIDGET with the id, the list
\* becomes what the reducer returns for it, and nothing else happens: no cache
\* read or write, no fetch, no timeout; the cache, the pending timeout and
\* the outstanding fetches are after the call what they were before it.
C26_ReorderAndRemoveOnlyDispatch ==
  [][(IsCall(log', "reorderWidgets") \/ IsCall(log', "removeWidget"))
       => /\ Len(log') = 2
          /\ Dispatches(log') =
               <<IF IsCall(log', "removeWidget")
                 THEN [type |-> REMOVE_WIDGET, payload |-> log'[1].args[1]]
                 ELSE [type |-> REORDER_WIDGETS,
                       payload |-> [fromIndex |-> log'[1].args[1],
                                    toIndex |-> log'[1].args[2]]]>>
          /\ widgets' = widgetReducer(widgets, Dispatches(log')[1])
          /\ cache' = cache
          /\ timer' = timer
          /\ inflight' = inflight]_vars

\* removeWidget has returned for a widget whose fetch is outstanding and
\* whose debounced refresh is pending, with an entry in the cache: the
\* widget is gone, the fetch, the timeout and the entry are still there
C26_Witness ==
  /\ IsCall(log, "removeWidget")
  /\ ~InList(widgets, log[1].args[1])
  /\ Outstanding(log[1].args[1])
  /\ timer.pending /\ timer.args[2] = log[1].args[1]
  /\ cache # <<>>

\* ------------------------------------------------------------------ C27
\* C27: UPDATE_WIDGET_DATA(id, data) on a list of widgets returns a list of
\* the same length and order in which the widget with that id has the
\* payload as data, loading = false and no error, with the id, type and
\* createdAt it had, and every other widget is as it was; when no widget has
\* the id, the list returned equals the input.
C27_UpdateSetsDataOfThatId ==
  [][(/\ IsCall(log', "widgetReducer")
      /\ CallOf(log').action.type = UPDATE_WIDGET_DATA
      /\ Rendered(CallOf(log').state))
       => LET l == CallOf(log').state
              payload == CallOf(log').action.payload
              result == log'[2].value
          IN /\ log'[2].op = "return"
             /\ Len(result) = Len(l)
             /\ \A k \in DOMAIN l :
                  IF l[k].id = payload.id
                  THEN /\ DOMAIN result[k] = DOMAIN l[k]
                       /\ result[k].data = payload.data
                       /\ result[k].loading = FALSE
                       /\ result[k].error = NULL
                       /\ result[k].id = l[k].id
                       /\ result[k].type = l[k].type
                       /\ result[k].createdAt = l[k].createdAt
                  ELSE result[k] = l[k]
             /\ ~InList(l, payload.id) => result = l]_vars

\* the second of three widgets, loading and with an error from before, was
\* updated: it has the data, is not loading and has no error, and the
\* widgets around it are the ones that were there
C27_Witness ==
  /\ IsCall(log, "widgetReducer")
  /\ CallOf(log).action.type = UPDATE_WIDGET_DATA
  /\ Len(CallOf(log).state) = 3 /\ Rendered(CallOf(log).state)
  /\ CallOf(log).state[2].id = CallOf(log).action.payload.id
  /\ CallOf(log).state[2].loading
  /\ CallOf(log).state[2].error # NULL
  /\ CallOf(log).state[2].data = NULL
  /\ log[2].op = "return"
  /\ widgets[2].data = CallOf(log).action.payload.data
  /\ ~widgets[2].loading /\ widgets[2].error = NULL
  /\ widgets[1] = CallOf(log).state[1] /\ widgets[3] = CallOf(log).state[3]

\* ------------------------------------------------------------------ C28
\* C28: SET_WIDGET_LOADING(id, loading) on a list of widgets changes only
\* the loading flag of the widget with that id, which becomes the payload's:
\* its data, error, id, type and createdAt, every other widget, and the
\* order and length of the list are as they were.
C28_SetLoadingSetsOnlyTheFlag ==
  [][(/\ IsCall(log', "widgetReducer")
      /\ CallOf(log').action.type = SET_WIDGET_LOADING
      /\ Rendered(CallOf(log').state))
       => LET l == CallOf(log').state
              payload == CallOf(log').action.payload
              result == log'[2].value
          IN /\ log'[2].op = "return"
             /\ Len(result) = Len(l)
             /\ \A k \in DOMAIN l :
                  /\ DOMAIN result[k] = DOMAIN l[k]
                  /\ \A field \in DOMAIN l[k] \ {"loading"} : result[k][field] = l[k][field]
                  /\ result[k].loading = IF l[k].id = payload.id
                                         THEN payload.loading ELSE l[k].loading]_vars

\* the first of two widgets, with data and an error, was set loading: it is
\* loading and has the data and the error it had; the second is as it was
C28_Witness ==
  /\ IsCall(log, "widgetReducer")
  /\ CallOf(log).action.type = SET_WIDGET_LOADING
  /\ CallOf(log).action.payload.loading
  /\ Len(CallOf(log).state) = 2 /\ Rendered(CallOf(log).state)
  /\ CallOf(log).state[1].id = CallOf(log).action.payload.id
  /\ ~CallOf(log).state[1].loading
  /\ CallOf(log).state[1].data # NULL /\ CallOf(log).state[1].error # NULL
  /\ log[2].op = "return"
  /\ widgets[1] = [CallOf(log).state[1] EXCEPT !.loading = TRUE]
  /\ widgets[2] = CallOf(log).state[2]

\* ------------------------------------------------------------------ C29
\* C29: from the step that adds a widget to the step that removes it, its
\* id, type and createdAt do not change, whatever the orchestrator does and
\* the reducer is given: every widget of the list that is still in the list
\* after a step has the type and the createdAt it had, and a widget that
\* enters the list does so by addWidget, with a new id, the lower-cased type
\* and the time of the call.
C29_IdentityFieldsNeverChange ==
  /\ [][\A i \in DOMAIN widgets :
          InList(widgets', widgets[i].id)
            => /\ WidgetOf(widgets', widgets[i].id).type = widgets[i].type
               /\ WidgetOf(widgets', widgets[i].id).createdAt = widgets[i].createdAt]_vars
  /\ [][\A j \in DOMAIN widgets' :
          ~InList(widgets, widgets'[j].id)
            => /\ IsCall(log', "addWidget")
               /\ widgets'[j].id = nextId
               /\ widgets'[j].type = toLowerCase(log'[1].args[1])
               /\ widgets'[j].createdAt = now]_vars
  /\ [](\A i, j \in DOMAIN widgets : widgets[i].id = widgets[j].id => i = j)

\* the first widget added has since got data, been moved behind a widget of
\* another type that was added later, and aged: it is the widget it was
C29_Witness ==
  /\ Len(widgets) = 2
  /\ widgets[2].id = 1 /\ widgets[2].type = "weather" /\ widgets[2].createdAt = 0
  /\ widgets[2].data # NULL
  /\ widgets[1].id = 2 /\ widgets[1].type = "gauge"
  /\ now > widgets[1].createdAt
  /\ widgets[1].createdAt > 0

\* ------------------------------------------------------------------ C30
\* C30: the completion of a fetch is applied by id, not by position.
\* Whatever was added, removed or reordered since the fetch for X started,
\* its continuation keeps the id at every position of the list as it is now
\* and changes no widget but the one whose id is X, wherever that one is:
\* on success it gets the payload as data, on failure the error.
C30_CompletionAppliedById ==
  [][(log' # <<>> /\ log'[1].op \in {"setCache", "throw"})
       => LET id == log'[2].action.payload.id
          IN /\ Len(widgets') = Len(widgets)
             /\ \A i \in DOMAIN widgets :
                  /\ widgets'[i].id = widgets[i].id
                  /\ widgets'[i] # widgets[i] => widgets[i].id = id
                  /\ widgets[i].id = id
                       => /\ ~widgets'[i].loading
                          /\ IF log'[1].op = "setCache"
                             THEN widgets'[i].data = log'[1].data /\ widgets'[i].error = NULL
                             ELSE /\ widgets'[i].error = [message |-> log'[1].message]
                                  /\ widgets'[i].data = widgets[i].data]_vars

\* the first widget added was moved behind the second while its fetch was
\* outstanding; the fetch has succeeded: the payload is in the widget at the
\* second position, and the widget now at the first is still waiting
C30_Witness ==
  /\ log # <<>> /\ log[1].op = "setCache"
  /\ log[2].action.payload.id = 1
  /\ Len(widgets) = 2
  /\ widgets[2].id = 1 /\ widgets[2].data = log[1].data /\ ~widgets[2].loading
  /\ widgets[1].id = 2 /\ widgets[1].data = NULL /\ widgets[1].loading

\* ------------------------------------------------------------------ C31
\* C31: setCache(key, data) puts (data, now) under key, in place of whatever
\* was there, and leaves every other entry, expired or not, as it was; a
\* getCached of the key is then a hit as long as now - timestamp is within
\* CACHE_DURATION of that last write; and an entry leaves the store only by
\* a getCached of its own key that finds it expired, or by clearCache().
C31_SetReplacesAndStamps ==
  /\ [][IsCall(log', "setCache")
          => LET key == log'[1].args[1]
             IN /\ cache'[key] = [data |-> log'[1].args[2], timestamp |-> now]
                /\ DOMAIN cache' = DOMAIN cache \cup {key}
                /\ \A k \in DOMAIN cache \ {key} : cache'[k] = cache[k]]_vars
  /\ [][(/\ IsCall(log', "getCached")
         /\ log'[1].args[1] \in DOMAIN cache
         /\ now <= cache[log'[1].args[1]].timestamp + CACHE_DURATION)
          => /\ log'[2].value = cache[log'[1].args[1]].data
             /\ cache' = cache]_vars
  /\ [][\A k \in DOMAIN cache :
          k \notin DOMAIN cache'
            => \/ IsCall(log', "clearCache")
               \/ IsCall(log', "getCached") /\ log'[1].args[1] = k /\ Expired(k)]_vars

\* setCache has just written one key at the current time, long after the
\* other key was written: the other entry, expired by now, is still in the
\* store as it was
C31_Witness ==
  /\ IsCall(log, "setCache")
  /\ cache[log[1].args[1]] = [data |-> log[1].args[2], timestamp |-> now]
  /\ \E k \in DOMAIN cache : k # log[1].args[1] /\ Expired(k) /\ cache[k].timestamp = 0

\* ------------------------------------------------------------------ C32
\* C32: there is no timeout transition.  A widget that is loading and stays
\* in the list stops loading only in a task that runs fetchWidgetData for
\* its id: the continuation of one of its fetches, or a debounce timeout with
\* its id that hits the cache.  So while the fetch started for it has not
\* resolved and nothing else is run for it, the widget is loading in every
\* later state, however much time passes.
C32_LoadingUntilACompletion ==
  [][\A i \in DOMAIN widgets :
       (/\ widgets[i].loading
        /\ InList(widgets', widgets[i].id)
        /\ ~WidgetOf(widgets', widgets[i].id).loading)
         => \/ /\ log' # <<>> /\ log'[1].op \in {"setCache", "throw"}
               /\ log'[2].action.payload.id = widgets[i].id
            \/ /\ log' # <<>> /\ log'[1].op = "timeout"
               /\ log'[1].args[2] = widgets[i].id
               /\ log'[2].value # NULL]_vars

\* more than two freshness windows after it was added, a widget whose fetch
\* has not resolved is still loading, with neither data nor error
C32_Witness ==
  /\ log = <<>>
  /\ \E i \in DOMAIN widgets :
       /\ widgets[i].loading /\ widgets[i].data = NULL /\ widgets[i].error = NULL
       /\ Outstanding(widgets[i].id)
       /\ now - widgets[i].createdAt > CACHE_DURATION

\* ------------------------------------------------------------------ C33
\* C33: widget data and cache are coherent.  In every reachable state, a
\* widget of the list that has data, and for whose (type, id) the store
\* holds an entry, has that entry's payload as its data.
C33_DataEqualsCacheEntry ==
  \A i \in DOMAIN widgets :
    (/\ widgets[i].data # NULL
     /\ CacheKey(widgets[i].type, widgets[i].id) \in DOMAIN cache)
      => widgets[i].data = cache[CacheKey(widgets[i].type, widgets[i].id)].data

\* of two overlapping fetches of a widget one has just succeeded: the widget
\* and the cache hold its payload, and the other fetch is still outstanding
C33_Witness ==
  /\ log # <<>> /\ log[1].op = "setCache"
  /\ InList(widgets, log[2].action.payload.id)
  /\ Outstanding(log[2].action.payload.id)
  /\ WidgetOf(widgets, log[2].action.payload.id).data = log[1].data
  /\ cache[log[1].key].data = log[1].data

\* ------------------------------------------------------------------ C34
\* how many fetches for the id are outstanding
OutstandingFor(bag, id) ==
  LET fs == {f \in BagToSet(bag) : f.id = id}
      count[S \in SUBSET fs] ==
        IF S = {} THEN 0
        ELSE LET f == CHOOSE g \in S : TRUE IN CopiesIn(f, bag) + count[S \ {f}]
  IN count[fs]

\* C34: when fetches for one widget overlap, each success overwrites: the
\* success of a fetch for a widget of the list leaves the widget's data and
\* the cache entry equal to that fetch's payload, stamped now, whichever
\* fetch was started first and whatever an earlier completion had written,
\* so that the last completion decides; and the widget stops loading at the
\* first completion, while the other fetch is still outstanding.
C34_LastCompletionWins ==
  [][(/\ log' # <<>> /\ log'[1].op = "setCache"
      /\ InList(widgets, log'[2].action.payload.id))
       => LET id == log'[2].action.payload.id
          IN /\ WidgetOf(widgets', id).data = log'[1].data
             /\ cache'[log'[1].key] = [data |-> log'[1].data, timestamp |-> now]
             /\ log'[1].key = CacheKey(WidgetOf(widgets, id).type, id)
             /\ OutstandingFor(inflight', id) = OutstandingFor(inflight, id) - 1
             /\ ~WidgetOf(widgets', id).loading]_vars

\* two fetches of a widget were outstanding and one has just succeeded: the
\* widget has its payload and is no longer loading, one fetch is left
C34_Witness ==
  /\ log # <<>> /\ log[1].op = "setCache"
  /\ InList(widgets, log[2].action.payload.id)
  /\ OutstandingFor(inflight, log[2].action.payload.id) = 1
  /\ ~WidgetOf(widgets, log[2].action.payload.id).loading
  /\ WidgetOf(widgets, log[2].action.payload.id).data = log[1].data

\* ------------------------------------------------------------------ C35
\* C35: a fetch that succeeds after its widget was removed still caches its
\* payload: every fetch that leaves the outstanding ones without an error
\* writes (payload, now) under its own key, its widget in the list or not,
\* and in the latter case the list stays as it is; and removeWidget leaves
\* the store as it is.  So the store can hold entries of ids not in the list.
C35_RemovedWidgetStillCached ==
  /\ [][\A f \in BagToSet(inflight) :
          (CopiesIn(f, inflight') < CopiesIn(f, inflight) /\ Entries(log', "throw") = <<>>)
            => /\ log' # <<>> /\ log'[1].op = "setCache"
               /\ log'[1].key = CacheKey(f.type, f.id)
               /\ cache'[log'[1].key] = [data |-> log'[1].data, timestamp |-> now]
               /\ ~InList(widgets, f.id) => widgets' = widgets]_vars
  /\ [][IsCall(log', "removeWidget") => cache' = cache]_vars

\* the fetch of a removed widget has just succeeded: the store holds an
\* entry for an id that is not in the list
C35_Witness ==
  /\ log # <<>> /\ log[1].op = "setCache"
  /\ ~InList(widgets, log[2].action.payload.id)
  /\ log[1].key[2] = log[2].action.payload.id
  /\ log[1].key \in DOMAIN cache
  /\ cache[log[1].key].data = log[1].data

\* ------------------------------------------------------------------ C36
\* C36: removeWidget does not cancel a pending debounced refresh.
\* removeWidget leaves the pending timeout and its arguments as they are;
\* and when the timeout fires for an id that is no longer in the list,
\* fetchWidgetData runs for it all the same: it reads the cache under the
\* key of the arguments and, on a miss, dispatches SET_WIDGET_LOADING and
\* starts a fetch, on a hit dispatches UPDATE_WIDGET_DATA; the list is after
\* the task what it was before.
C36_RemoveKeepsPendingRefresh ==
  /\ [][IsCall(log', "removeWidget") => (timer' = timer /\ burst' = burst)]_vars
  /\ [][(/\ log' # <<>> /\ log'[1].op = "timeout"
         /\ ~InList(widgets, log'[1].args[2]))
          => LET widgetType == log'[1].args[1]
                 widgetId == log'[1].args[2]
             IN /\ Len(log') >= 3
                /\ log'[2].op = "getCached"
                /\ log'[2].key = CacheKey(widgetType, widgetId)
                /\ IF log'[2].value = NULL
                   THEN /\ Dispatches(log') =
                             <<[type |-> SET_WIDGET_LOADING,
                                payload |-> [id |-> widgetId, loading |-> TRUE]]>>
                        /\ Entries(log', "fetch") = <<FetchStarted(widgetType, widgetId)>>
                        /\ inflight' = inflight (+) SetToBag({Fetch(widgetType, widgetId)})
                   ELSE /\ Dispatches(log') =
                             <<[type |-> UPDATE_WIDGET_DATA,
                                payload |-> [id |-> widgetId, data |-> log'[2].value]]>>
                        /\ inflight' = inflight
                /\ widgets' = widgets]_vars

\* a widget was refreshed and then removed; the timeout has fired for it,
\* missed the cache and started a fetch for the removed id, and the list
\* still holds the other widget only
C36_Witness ==
  /\ log # <<>> /\ log[1].op = "timeout"
  /\ ~InList(widgets, log[1].args[2])
  /\ log[2] = GotCached(CacheKey(log[1].args[1], log[1].args[2]), NULL)
  /\ log[Len(log)] = FetchStarted(log[1].args[1], log[1].args[2])
  /\ Outstanding(log[1].args[2])
  /\ Len(widgets) = 1
  /\ ~timer.pending

\* ------------------------------------------------------------------ C37
\* C37 (as stated): every reorderWidgets(fromIndex, toIndex) that
\* handleDragEnd calls has both indices within 0..length-1 of the list as it
\* is at that moment, and the list it yields is a permutation of that list.
C37_DragEndIndicesInRange ==
  [][IsCall(log', "handleDragEnd")
       => \A k \in DOMAIN CallsOf(log', "reorderWidgets") :
            /\ CallsOf(log', "reorderWidgets")[k].args[1] \in 0..(Len(widgets) - 1)
            /\ CallsOf(log', "reorderWidgets")[k].args[2] \in 0..(Len(widgets) - 1)
            /\ Len(widgets') = Len(widgets)
            /\ \A i \in DOMAIN widgets : \E j \in DOMAIN widgets' : widgets'[j] = widgets[i]]_vars

\* ------------------------------------------------------------------ C38
\* C38: in every state reached through drag start, hover, drag leave and
\* drag end, whatever else happens to the list meanwhile, dragOverIndex is
\* non-null only if draggedIndex is non-null.
C38_TargetOnlyDuringDrag ==
  dragOverIndex # NoIndex => draggedIndex # NoIndex

\* a widget was hovered over with no drag in progress: no target is recorded
C38_Witness ==
  /\ IsCall(log, "handleDragOver")
  /\ draggedIndex = NoIndex
  /\ dragOverIndex = NoIndex
  /\ log[1].args[1] \in 0..(Len(widgets) - 1)

\* ------------------------------------------------------------------ C39
\* C39: a cache hit does not renew freshness.  getCached(key) on an entry
\* that is not expired returns its payload and leaves its payload and its
\* timestamp as they are; the timestamp of a stored entry changes by nothing
\* but a setCache of its key; and a getCached at a time later than
\* timestamp + CACHE_DURATION returns null.  So an entry written at T is a
\* miss for every read after T + CACHE_DURATION, however often it was read.
C39_HitDoesNotRenew ==
  /\ [][(IsCall(log', "getCached") /\ log'[2].value # NULL)
          => /\ log'[1].args[1] \in DOMAIN cache'
             /\ cache'[log'[1].args[1]].timestamp = cache[log'[1].args[1]].timestamp
             /\ cache'[log'[1].args[1]].data = log'[2].value]_vars
  /\ [][\A k \in DOMAIN cache \cap DOMAIN cache' :
          cache'[k].timestamp # cache[k].timestamp
            => (IsCall(log', "setCache") /\ log'[1].args[1] = k /\ cache'[k].timestamp = now)]_vars
  /\ [][\A k \in DOMAIN cache :
          (IsCall(log', "getCached") /\ log'[1].args[1] = k
           /\ now > cache[k].timestamp + CACHE_DURATION)
            => log'[2].value = NULL]_vars

\* an entry written earlier has just been read and hit, within the window:
\* its timestamp is still the time it was written at
C39_Witness ==
  /\ IsCall(log, "getCached")
  /\ log[2].value # NULL
  /\ log[1].args[1] \in DOMAIN cache
  /\ cache[log[1].args[1]].timestamp < now
  /\ now < cache[log[1].args[1]].timestamp + CACHE_DURATION
  /\ cache[log[1].args[1]].data = log[2].value

====
